---- MODULE Spec2Model ----
(***************************************************************************)
(* Model of the assessment orchestrator: the label-reading quiz tools      *)
(* (src/src/tools/quiz_tools.py, duplicated in src/app.py), the            *)
(* electrician and fitter quiz rounds, the status-marker / image-reference *)
(* parsing of the two A2A delivery paths, the WhatsApp turn pipeline and   *)
(* the final verdict of a candidate session.                               *)
(***************************************************************************)
EXTENDS Integers, Sequences, FiniteSets, TLC

VARIABLES
    op,             \* name of the last tool or handler that ran
    ret,            \* value it returned (or the exception it raised)
    \* label-reading quiz (src/src/tools/quiz_tools.py, src/app.py)
    dataset,        \* label_dataset/index.json: whether it exists and its contents
    state,          \* tool_context.state: a dict keyed by strings
    scored,         \* score calls applied since the last successful start: how many,
                    \* how many with is_correct = true, and the last is_correct
    \* electrician and fitter rounds
    PRE_ANALYZED_ANSWERS,   \* electrician_skill_agent._PRE_ANALYZED_ANSWERS
    electrician_sessions,   \* electrician_skill_agent._QUIZ_SESSIONS
    fitter_sessions,        \* fitter_skill_agent._QUIZ_SESSIONS
    chosen_agent,           \* SessionEntry: the assessor whose tools the runner offers
    \* one A2A turn (src/src/server/a2a_server.py, src/job_assessment_executor.py)
    response_text,  \* the agent's final text, a sequence of tokens
    delivered,      \* what the delivery path handed back for it
    \* WhatsApp webhook (src/electrician_skill_agent/whatsapp.py)
    INTERVIEW_PREP_AVAILABLE,   \* whether the interview-prep agent could be imported
    SESSIONS,       \* one SessionEntry per WhatsApp phone number
    tasks,          \* process_agent_and_reply coroutines scheduled and not yet returned
    received,       \* webhook requests handled so far
    tool_calls,     \* tools the runners have executed so far
    senders,        \* the From values that reach the webhook
    caller,         \* phone number of the turn whose runner executed the last tool
    \* candidate session and final verdict (src/src/assessment_system.py)
    candidate_state,    \* the state of the candidate's ADK session
    competency_map,     \* StatefulJobAssessmentSystem.competency_map
    \* A2A contexts (src/src/server/a2a_server.py, src/job_assessment_executor.py)
    a2a_contexts,       \* A2AServer.a2a_contexts: context id -> session info
    candidate_sessions, \* the sessions create_candidate_session made, each with the
                        \* context id it was made for
    a2a_requests,       \* message/send requests being handled, one per thread
    \* retry_with_backoff (src/electrician_skill_agent/whatsapp.py)
    backoff,            \* one call of retry_with_backoff: its arguments and locals
    \* module progress (src/interview-prep-agent/src/tools)
    learning,           \* tool_context.state['learning'], for one skill
    database,           \* the user's rows of tables user_progress and user_sessions
    status_calls,       \* db_set_module_status calls so far; the clock of now
    \* turns of a candidate session (src/src/assessment_system.py)
    interactions,       \* process_candidate_interaction coroutines in flight, and how
                        \* many were started
    \* the WhatsApp user in the interview-prep database (db_tools.py)
    known_user,         \* users.role of the phone number, and the last message the
                        \* user was sent
    \* the module global twilio_client and the requests using it (whatsapp.py)
    chat                \* the global, the /chat and webhook coroutines in flight, and
                        \* the replies the real client sent

callVars == <<op, ret>>
quizVars == <<dataset, state, scored>>
roundVars == <<PRE_ANALYZED_ANSWERS, electrician_sessions, fitter_sessions, chosen_agent>>
turnVars == <<response_text, delivered>>
waVars == <<INTERVIEW_PREP_AVAILABLE, SESSIONS, tasks, received, tool_calls, senders, caller>>
verdictVars == <<candidate_state, competency_map>>
a2aVars == <<a2a_contexts, candidate_sessions, a2a_requests>>
progressVars == <<learning, database, status_calls>>
utilVars == <<backoff, progressVars, interactions, known_user, chat>>
vars == <<callVars, quizVars, roundVars, turnVars, waVars, verdictVars, a2aVars, utilVars>>

\* what each group of operations leaves alone
notQuizVars == <<roundVars, turnVars, waVars, verdictVars, a2aVars, utilVars>>
notRoundVars == <<quizVars, turnVars, waVars, verdictVars, a2aVars, utilVars>>
notTurnVars == <<scored, roundVars, waVars, verdictVars, a2aVars, utilVars>>
notWhatsAppVars == <<quizVars, turnVars, chosen_agent, verdictVars, a2aVars, utilVars>>
notVerdictVars == <<quizVars, roundVars, turnVars, waVars, a2aVars, utilVars>>
notA2AVars == <<quizVars, roundVars, turnVars, waVars, verdictVars, utilVars>>
notBackoffVars == <<quizVars, roundVars, turnVars, waVars, verdictVars, a2aVars, progressVars,
                    interactions, known_user, chat>>
notProgressVars == <<quizVars, roundVars, turnVars, waVars, verdictVars, a2aVars, backoff,
                     interactions, known_user, chat>>
notInteractionVars == <<quizVars, roundVars, turnVars, waVars, competency_map, a2aVars, backoff,
                        progressVars, known_user, chat>>

(***************************************************************************)
(* Bounds                                                                  *)
(***************************************************************************)
MaxLabels == 4      \* longest label dataset explored
MaxCalls == 4       \* most score calls explored on a quiz that cannot complete
MaxImages == 2      \* most pre-analysed electrician photos explored
MaxBodyLen == 6     \* longest marker-bearing response body explored, in tokens
MaxPromptLen == 4   \* longest image-bearing response explored, in tokens

(***************************************************************************)
(* Python dict helpers                                                     *)
(***************************************************************************)
EmptyDict == [k \in {} |-> 0]

Get(d, k, default) == IF k \in DOMAIN d THEN d[k] ELSE default

Put(d, k, v) == [x \in (DOMAIN d) \cup {k} |-> IF x = k THEN v ELSE d[x]]

(***************************************************************************)
(* The parts of the state a specification does not exercise stay idle      *)
(***************************************************************************)
NoneScored == [calls |-> 0, correct |-> 0, last |-> FALSE]

NotDelivered == [path |-> "none"]

QuizIdle ==
    /\ dataset = [exists |-> FALSE, label_data |-> <<>>]
    /\ state = EmptyDict
    /\ scored = NoneScored

RoundsIdle ==
    /\ PRE_ANALYZED_ANSWERS = EmptyDict
    /\ electrician_sessions = EmptyDict
    /\ fitter_sessions = EmptyDict
    /\ chosen_agent = "electrician_skill_assessor"

TurnIdle ==
    /\ response_text = <<>>
    /\ delivered = NotDelivered

NotCalled == [status |-> "none"]

\* twilio_client = TwilioClient() at import; a MockTwilioClient is named by the
\* number of the /chat request that made it
RealClient == 0

ChatIdle == chat = [twilio_client |-> RealClient, requests |-> <<>>, real_sent |-> {}]

KnownUserIdle == known_user = [role |-> "None", asked |-> "none"] /\ ChatIdle

InteractionsIdle == interactions = [turns |-> <<>>, started |-> 0] /\ KnownUserIdle

ProgressIdle ==
    /\ learning = EmptyDict
    /\ database = EmptyDict
    /\ status_calls = 0
    /\ InteractionsIdle

BackoffIdle == backoff = NotCalled /\ ProgressIdle

A2AIdle ==
    /\ a2a_contexts = EmptyDict
    /\ candidate_sessions = <<>>
    /\ a2a_requests = <<>>
    /\ BackoffIdle

VerdictIdle ==
    /\ candidate_state = EmptyDict
    /\ competency_map = EmptyDict
    /\ A2AIdle

WhatsAppIdle ==
    /\ INTERVIEW_PREP_AVAILABLE = TRUE
    /\ SESSIONS = EmptyDict
    /\ tasks = <<>>
    /\ received = 0
    /\ tool_calls = 0
    /\ senders = {}
    /\ caller = "none"

(***************************************************************************)
(* Label dataset                                                           *)
(***************************************************************************)
key_fields == <<"product", "brand", "net_weight", "volume", "variant", "wattage">>

RelevantCategories == {"warehouse", "grocery", "beverage", "condiments"}

\* Representative entries of index.json: many key fields and several images,
\* one key field, an irrelevant category, and an entry without any key field.
LabelItems ==
    { [category |-> "grocery",
       fields |-> [product |-> "Rice", brand |-> "Daawat", net_weight |-> "1kg", volume |-> "1l"],
       file_paths |-> <<"label_dataset/samples/a1.jpeg", "label_dataset/samples/a2.jpeg">>],
      [category |-> "warehouse",
       fields |-> [product |-> "Bulb"],
       file_path |-> "label_dataset/samples/b.jpeg"],
      [category |-> "electronics",
       fields |-> [wattage |-> "9W", brand |-> "Syska"],
       file_path |-> "label_dataset/samples/c.jpeg"],
      [category |-> "grocery",
       fields |-> [mfg_date |-> "2024"],
       file_path |-> "label_dataset/samples/d.jpeg"] }

SeqsUpTo(S, n) == UNION {[1..m -> S] : m \in 0..n}

\* os.path.exists(dataset_path) and, when it does, json.load of the file
Datasets ==
    {[exists |-> TRUE, label_data |-> s] : s \in SeqsUpTo(LabelItems, MaxLabels)}
        \cup {[exists |-> FALSE, label_data |-> <<>>]}

\* Python slice s[:n]
Take(s, n) == SubSeq(s, 1, IF Len(s) < n THEN Len(s) ELSE n)

\* [item for item in s if P(item)]
RECURSIVE FilterSeq(_, _)
FilterSeq(s, keep) ==
    IF s = <<>> THEN <<>>
    ELSE (IF keep[Head(s)] THEN <<Head(s)>> ELSE <<>>) \o FilterSeq(Tail(s), keep)

IsRelevant == [item \in LabelItems |-> item.category \in RelevantCategories]

\* label_item.get('file_paths', [label_item.get('file_path')])
ImagePathsOf(item) ==
    IF "file_paths" \in DOMAIN item THEN item.file_paths
    ELSE <<Get(item, "file_path", "None")>>

\* inner loop of start_label_reading_quiz: one question per key field present,
\* stopping once the label has three questions
RECURSIVE LabelQuestions(_, _, _, _)
LabelQuestions(i, item, k, acc) ==
    IF k > Len(key_fields) THEN acc
    ELSE IF key_fields[k] \in DOMAIN item.fields
         THEN LET q == [label_index |-> i,
                        question |-> key_fields[k],
                        expected_field |-> key_fields[k],
                        expected_value |-> item.fields[key_fields[k]],
                        image_paths |-> ImagePathsOf(item)]
                  acc2 == Append(acc, q)
              IN IF Len(acc2) >= 3 THEN acc2
                 ELSE LabelQuestions(i, item, k + 1, acc2)
         ELSE LabelQuestions(i, item, k + 1, acc)

\* outer loop: for i, label_item in enumerate(selected_labels)
RECURSIVE GenerateQuestions(_, _)
GenerateQuestions(selected, i) ==
    IF i >= Len(selected) THEN <<>>
    ELSE LabelQuestions(i, selected[i + 1], 1, <<>>) \o GenerateQuestions(selected, i + 1)

SelectedLabels(label_data) ==
    LET relevant == FilterSeq(label_data, IsRelevant)
        relevant_labels == IF relevant = <<>> THEN Take(label_data, 3) ELSE relevant
    IN Take(relevant_labels, 3)

(***************************************************************************)
(* Label-reading quiz tools                                                *)
(***************************************************************************)
\* tool_context.state.get("label_reading_quiz", {})
Quiz == Get(state, "label_reading_quiz", EmptyDict)

AlreadyActiveError == "ERROR: Quiz is already active. Use answer_quiz_question instead."
NoActiveQuizAnswer == "No active quiz found. Please start a quiz first."
NoActiveQuizUpdate == "No active quiz found."

\* if existing_quiz.get("quiz_active"): the restart guard of start
mut_existing_quiz_active(existing_quiz) == FALSE
existing_quiz_active(existing_quiz) == Get(existing_quiz, "quiz_active", FALSE)

\* if not quiz_state.get("quiz_active"): the guard of answer and update
mut_no_active_quiz(quiz_state) == FALSE
no_active_quiz(quiz_state) == ~Get(quiz_state, "quiz_active", FALSE)

\* if is_correct: correct_answers += 1
mut_updated_correct_answers(correct_answers, is_correct) == correct_answers + 1
updated_correct_answers(correct_answers, is_correct) ==
    IF is_correct THEN correct_answers + 1 ELSE correct_answers

\* next_idx = current_idx + 1
mut_next_question_index(current_idx) == current_idx + 2
next_question_index(current_idx) == current_idx + 1

start_label_reading_quiz ==
    /\ op' = "start_label_reading_quiz"
    /\ UNCHANGED <<dataset, notQuizVars>>
    /\ IF existing_quiz_active(Quiz)
       THEN /\ ret' = [error |-> AlreadyActiveError]
            /\ UNCHANGED <<state, scored>>
       ELSE IF ~dataset.exists
       THEN \* FileNotFoundError caught by the handler
            /\ ret' = [error |-> "Error starting quiz"]
            /\ UNCHANGED <<state, scored>>
       ELSE LET selected_labels == SelectedLabels(dataset.label_data)
                questions == GenerateQuestions(selected_labels, 0)
                quiz_state == [labels |-> selected_labels,
                               questions |-> questions,
                               current_question |-> 0,
                               correct_answers |-> 0,
                               quiz_active |-> TRUE]
                st1 == Put(state, "label_reading_quiz", quiz_state)
            IN /\ scored' = NoneScored
               /\ IF questions # <<>>
                  THEN /\ state' = Put(st1, "current_label_images", questions[1].image_paths)
                       /\ ret' = [text |-> "Quiz started",
                                  images |-> questions[1].image_paths,
                                  question_num |-> 1,
                                  total_questions |-> Len(questions),
                                  question |-> questions[1].question]
                  ELSE /\ state' = st1
                       /\ ret' = [text |-> "Quiz started but no questions available"]

UserAnswers == {"Rice", "dunno"}

answer_quiz_question(user_answer) ==
    /\ op' = "answer_quiz_question"
    /\ UNCHANGED <<dataset, state, scored, notQuizVars>>
    /\ LET quiz_state == Quiz
       IN IF no_active_quiz(quiz_state)
          THEN ret' = [error |-> NoActiveQuizAnswer]
          ELSE LET questions == Get(quiz_state, "questions", <<>>)
                   current_idx == Get(quiz_state, "current_question", 0)
               IN IF current_idx >= Len(questions)
                  THEN ret' = [text |-> "Quiz completed. No more questions."]
                  ELSE ret' = [action |-> "score_and_continue",
                               user_answer |-> user_answer,
                               expected_answer |-> questions[current_idx + 1].expected_value,
                               field_type |-> questions[current_idx + 1].expected_field,
                               current_question_num |-> current_idx + 1,
                               total_questions |-> Len(questions)]

\* The quiz dict is mutated in place before the completion branch divides by
\* len(questions); with no questions the ZeroDivisionError is caught after
\* current_question and correct_answers were already written.
update_quiz_score_and_continue(is_correct) ==
    /\ op' = "update_quiz_score_and_continue"
    /\ UNCHANGED <<dataset, notQuizVars>>
    /\ LET quiz_state == Quiz
       IN IF no_active_quiz(quiz_state)
          THEN /\ ret' = [error |-> NoActiveQuizUpdate]
               /\ UNCHANGED <<state, scored>>
          ELSE LET questions == Get(quiz_state, "questions", <<>>)
                   current_idx == Get(quiz_state, "current_question", 0)
                   correct_answers ==
                       updated_correct_answers(Get(quiz_state, "correct_answers", 0), is_correct)
                   next_idx == next_question_index(current_idx)
                   qs1 == Put(Put(quiz_state, "current_question", next_idx),
                              "correct_answers", correct_answers)
               IN /\ scored.calls < MaxCalls + 3 * MaxLabels
                  /\ scored' = [calls |-> scored.calls + 1,
                                 correct |-> scored.correct + (IF is_correct THEN 1 ELSE 0),
                                 last |-> is_correct]
                  /\ IF next_idx >= Len(questions)
                     THEN IF Len(questions) = 0
                          THEN \* only a dict that is stored in the state is shared
                               /\ state' = IF "label_reading_quiz" \in DOMAIN state
                                            THEN Put(state, "label_reading_quiz", qs1)
                                            ELSE state
                               /\ ret' = [error |-> "Error updating score"]
                          ELSE /\ state' = Put(state, "label_reading_quiz",
                                               Put(qs1, "quiz_active", FALSE))
                               /\ ret' = [action |-> "quiz_completed",
                                          final_score |-> correct_answers,
                                          total_questions |-> Len(questions),
                                          accuracy |-> [num |-> correct_answers * 100,
                                                        den |-> Len(questions)]]
                     ELSE /\ state' = Put(Put(state, "current_label_images",
                                              questions[next_idx + 1].image_paths),
                                          "label_reading_quiz", qs1)
                          /\ ret' = [action |-> "continue_quiz",
                                     current_score |-> correct_answers,
                                     total_answered |-> current_idx + 1,
                                     next_question_num |-> next_idx + 1,
                                     total_questions |-> Len(questions),
                                     next_question |-> questions[next_idx + 1].question,
                                     images |-> questions[next_idx + 1].image_paths]

(***************************************************************************)
(* Electrician rounds (src/electrician_skill_agent/electrician_skill_agent.py) *)
(***************************************************************************)
Del(d, k) == [x \in (DOMAIN d) \ {k} |-> d[x]]

\* d.update(e)
Update(d, e) == [x \in (DOMAIN d) \cup (DOMAIN e) |-> IF x \in DOMAIN e THEN e[x] ELSE d[x]]

Raised(exc) == [raised |-> exc]

\* _get_session_key(context_info="default"): every caller uses the default
electrician_get_session_key(context_info) == <<"electrician_quiz", context_info>>

\* relative path of the i-th image of the ElectricianAssessment folder
RelativePath(i) == <<"ElectricianAssessment", i>>

\* os.path.join(project_root, relative_path)
AbsolutePath(relative_path) == <<"PROJECT_ROOT">> \o relative_path

PhotoQuestion == "Look at the image. Is the practice shown safe or unsafe?"

\* the dicts initialize_pre_analyzed_answers can leave behind: empty when the
\* folder or the analysis failed, else one entry per image
PreAnalyzedChoices ==
    UNION { [ {RelativePath(i) : i \in 1..n} ->
                { [correct_answer |-> a, explanation |-> "", question |-> PhotoQuestion]
                    : a \in {"safe", "unsafe"} } ]
            : n \in 0..MaxImages }

\* photo_questions.sort(key=lambda x: x["image_path"])
RECURSIVE SortedPhotoQuestions(_, _)
SortedPhotoQuestions(pre, i) ==
    IF i > Cardinality(DOMAIN pre) THEN <<>>
    ELSE <<[image_path |-> AbsolutePath(RelativePath(i)),
            question |-> pre[RelativePath(i)].question,
            correct_answer |-> pre[RelativePath(i)].correct_answer,
            explanation |-> pre[RelativePath(i)].explanation]>>
         \o SortedPhotoQuestions(pre, i + 1)

\* user_answer.lower().strip()
LowerStrip(a) ==
    CASE a = " Safe" -> "safe"
      [] OTHER -> a

PhotoAnswers == {"unsafe", " Safe"}

\* random.sample(knowledge_questions, 5): the questions of a knowledge round
KnowledgeRoundLength == 5

\* if overall_total >= 7: recommendation = "Hire"
HireThreshold == 7

\* two of the samples random.sample can draw from the pool; a question and its
\* answer are named by the entry's position in the pool
ElectricianKnowledgeSamples == { <<1, 2, 3, 4, 5>>, <<20, 7, 37, 1, 12>> }

KnowledgeQuestions(sample) ==
    [i \in 1..KnowledgeRoundLength |-> [question |-> sample[i], answer |-> sample[i]]]

\* Each tool is an operator from (pre-analysed answers, sessions, arguments) to
\* the sessions it leaves and the value it returns or the exception it raises.
start_photo_assessment(pre, sessions) ==
    LET session_key == electrician_get_session_key("default")
    IN IF pre = EmptyDict
       THEN [sessions |-> sessions,
             ret |-> [error |-> "No pre-analyzed image data available. Server may need restart."]]
       ELSE LET photo_questions == SortedPhotoQuestions(pre, 1)
                quiz_state == [questions |-> photo_questions,
                               current_question_index |-> 0,
                               results |-> <<>>,
                               score |-> 0]
            IN [sessions |-> Put(sessions, session_key, quiz_state),
                ret |-> [image_path |-> photo_questions[1].image_path]]

electrician_start_knowledge_assessment(sessions, sample) ==
    LET session_key == electrician_get_session_key("default")
    IN IF session_key \notin DOMAIN sessions
       THEN [sessions |-> sessions,
             ret |-> [text |-> "Session not found. Please start with the photo assessment first."]]
       ELSE LET selected_questions == KnowledgeQuestions(sample)
                quiz_state == Update(sessions[session_key],
                                     [assessment_type |-> "knowledge",
                                      questions |-> selected_questions,
                                      current_question_index |-> 0,
                                      results |-> <<>>,
                                      score |-> 0])
            IN [sessions |-> Put(sessions, session_key, quiz_state),
                ret |-> [text |-> "Knowledge Assessment Started",
                         question |-> selected_questions[1].question]]

\* The completion branch stores photo_assessment_results, deletes the four quiz
\* keys and then deletes "assessment_type", a key start_photo_assessment never
\* sets: the KeyError leaves the session without its quiz keys.
score_photo_answer(pre, sessions, user_answer, sample) ==
    LET session_key == electrician_get_session_key("default")
    IN IF session_key \notin DOMAIN sessions
       THEN [sessions |-> sessions,
             ret |-> [text |-> "Assessment not started. Please start the assessment first."]]
       ELSE LET quiz_state == sessions[session_key]
            IN IF "current_question_index" \notin DOMAIN quiz_state
               THEN [sessions |-> sessions, ret |-> Raised("KeyError")]
               ELSE LET current_index == quiz_state.current_question_index
                    IN IF current_index >= Len(quiz_state.questions)
                       THEN [sessions |-> sessions, ret |-> Raised("IndexError")]
                       ELSE LET question == quiz_state.questions[current_index + 1]
                    IN IF "image_path" \notin DOMAIN question
                       THEN [sessions |-> sessions, ret |-> Raised("KeyError")]
                       ELSE LET correct ==
                                    IF question.image_path \notin DOMAIN pre
                                    THEN Get(question, "correct_answer", "")
                                    ELSE pre[question.image_path].correct_answer
                                is_correct == LowerStrip(user_answer) = LowerStrip(correct)
                                qs1 == [quiz_state EXCEPT
                                          !.score = IF is_correct THEN @ + 1 ELSE @,
                                          !.results = Append(@, [question |-> question.question,
                                                                 candidate_answer |-> user_answer,
                                                                 is_correct |-> is_correct,
                                                                 image_path |-> question.image_path]),
                                          !.current_question_index = @ + 1]
                            IN IF qs1.current_question_index < Len(qs1.questions)
                               THEN [sessions |-> Put(sessions, session_key, qs1),
                                     ret |-> [image_path |->
                                                qs1.questions[qs1.current_question_index + 1].image_path]]
                               ELSE LET photo_results ==
                                            [photo_identification_results |-> qs1.results,
                                             photo_identification_score |-> qs1.score]
                                        qs2 == Put(qs1, "photo_assessment_results", photo_results)
                                        qs3 == Del(Del(Del(Del(qs2, "questions"),
                                                   "current_question_index"), "results"), "score")
                                    IN IF "assessment_type" \notin DOMAIN qs3
                                       THEN [sessions |-> Put(sessions, session_key, qs3),
                                             ret |-> Raised("KeyError")]
                                       ELSE LET started == electrician_start_knowledge_assessment(
                                                              Put(sessions, session_key,
                                                                  Del(qs3, "assessment_type")),
                                                              sample)
                                            IN [sessions |-> started.sessions,
                                                ret |-> [text |-> "Photo identification task completed.",
                                                         score |-> photo_results.photo_identification_score,
                                                         out_of |-> Len(photo_results.photo_identification_results),
                                                         knowledge |-> started.ret]]

\* is_correct is the LLM's judgement (or the substring fallback): an input here
electrician_score_knowledge_answer(sessions, user_answer, is_correct) ==
    LET session_key == electrician_get_session_key("default")
    IN IF \/ session_key \notin DOMAIN sessions
          \/ Get(sessions[session_key], "assessment_type", "None") # "knowledge"
       THEN [sessions |-> sessions,
             ret |-> [text |-> "Knowledge assessment not started. Please start the assessment first."]]
       ELSE LET quiz_state == sessions[session_key]
                current_index == quiz_state.current_question_index
                question == quiz_state.questions[current_index + 1]
                qs1 == [quiz_state EXCEPT
                          !.score = IF is_correct THEN @ + 1 ELSE @,
                          !.results = Append(@, [question |-> question.question,
                                                 candidate_answer |-> user_answer,
                                                 correct_answer |-> question.answer,
                                                 is_correct |-> is_correct]),
                          !.current_question_index = @ + 1]
            IN IF qs1.current_question_index < Len(qs1.questions)
               THEN [sessions |-> Put(sessions, session_key, qs1),
                     ret |-> [text |-> "Next question",
                              question |-> qs1.questions[qs1.current_question_index + 1].question]]
               ELSE LET photo_results == Get(qs1, "photo_assessment_results", EmptyDict)
                        photo_score == Get(photo_results, "photo_identification_score", 0)
                        overall_total == photo_score + qs1.score
                    IN [sessions |-> Del(sessions, session_key),
                        ret |-> [text |-> "Assessment Complete!",
                                 photo_score |-> photo_score,
                                 knowledge_score |-> qs1.score,
                                 overall_total |-> overall_total,
                                 recommendation |-> IF overall_total >= HireThreshold
                                                    THEN "Hire" ELSE "Reject"]]

(***************************************************************************)
(* Fitter rounds (src/fitter_skill_agent/fitter_skill_agent.py)            *)
(***************************************************************************)
fitter_get_session_key(context_info) == <<"fitter_quiz", context_info>>

\* the three configured scenarios; option b is the correct one in each
scenarios ==
    << [question |-> "Loose bolt in a Machine",
        options |-> [a |-> "ignore it until the next scheduled maintenance",
                     b |-> "tighten it immediately with the proper tool",
                     c |-> "hit it with a hammer",
                     d |-> "call the supervisor without checking"],
        correct |-> "b"],
       [question |-> "Pipe Joint Leaking Slightly",
        options |-> [a |-> "apply sealant without shutting the system",
                     b |-> "shut down system pressure and then repair",
                     c |-> "wrap it with cloth temporarily",
                     d |-> "ignore if the leak is small"],
        correct |-> "b"],
       [question |-> "Fitting a Shaft",
        options |-> [a |-> "use brute force with a hammer",
                     b |-> "align properly and use a mallet or press fit",
                     c |-> "file the shaft down until it fits loosely",
                     d |-> "push it by hand even if misaligned"],
        correct |-> "b"] >>

\* pick = min(5, total_available)
ScenarioPick == IF 5 < Len(scenarios) THEN 5 ELSE Len(scenarios)

\* two of the orders random.sample(scenarios, pick) can return
ScenarioSamples == { <<1, 2, 3>>, <<3, 1, 2>> }

FitterKnowledgeSamples == { <<1, 2, 3, 4, 5>>, <<8, 3, 6, 1, 7>> }

\* what the candidate types: a letter in some spelling, the text of an option
\* of some scenario, or something else
FitterAnswers ==
    {"B", "a", "Option (b).", "Tighten it immediately with the proper tool."}

\* _normalize_answer: strip, lower, drop "option ", ".", "(" and ")"
\* (the option texts above are written already normalised)
normalize_answer(text) ==
    CASE text = "B" -> "b"
      [] text = "Option (b)." -> "b"
      [] text = "Tighten it immediately with the proper tool."
            -> "tighten it immediately with the proper tool"
      [] OTHER -> text

\* the letter branch, else the first option whose normalised text equals the answer
ScenarioIsCorrect(q, user_answer) ==
    LET ans == normalize_answer(user_answer)
    IN IF ans \in {"a", "b", "c", "d"}
       THEN ans = q.correct
       ELSE \E key \in DOMAIN q.options :
               /\ ans = normalize_answer(q.options[key])
               /\ key = q.correct

fitter_start_knowledge_assessment(sessions, sample) ==
    LET session_key == fitter_get_session_key("default")
    IN IF session_key \notin DOMAIN sessions
       THEN [sessions |-> sessions,
             ret |-> [text |-> "Session not found. Please start with the scenario assessment first."]]
       ELSE LET selected_questions == KnowledgeQuestions(sample)
                quiz_state == Update(sessions[session_key],
                                     [assessment_type |-> "knowledge",
                                      questions |-> selected_questions,
                                      current_question_index |-> 0,
                                      results |-> <<>>,
                                      score |-> 0])
            IN [sessions |-> Put(sessions, session_key, quiz_state),
                ret |-> [text |-> "Knowledge Assessment Started",
                         question |-> selected_questions[1].question]]

start_scenario_assessment(sessions, order) ==
    LET session_key == fitter_get_session_key("default")
    IN IF Len(scenarios) <= 0
       THEN [sessions |-> sessions,
             ret |-> [text |-> "No scenario questions configured. Please add scenarios and try again."]]
       ELSE LET selected == [i \in 1..ScenarioPick |-> scenarios[order[i]]]
            IN [sessions |-> Put(sessions, session_key,
                                 [assessment_type |-> "scenario",
                                  questions |-> selected,
                                  current_question_index |-> 0,
                                  results |-> <<>>,
                                  score |-> 0]),
                ret |-> [text |-> "Scenario Assessment",
                         idx |-> 1,
                         total |-> Len(selected),
                         question |-> selected[1].question]]

score_scenario_answer(sessions, user_answer, sample) ==
    LET session_key == fitter_get_session_key("default")
    IN IF \/ session_key \notin DOMAIN sessions
          \/ Get(sessions[session_key], "assessment_type", "None") # "scenario"
       THEN [sessions |-> sessions,
             ret |-> [text |-> "Scenario assessment not started. Please start the assessment first."]]
       ELSE LET quiz_state == sessions[session_key]
                idx == quiz_state.current_question_index
                q == quiz_state.questions[idx + 1]
                is_correct == ScenarioIsCorrect(q, user_answer)
                qs1 == [quiz_state EXCEPT
                          !.score = IF is_correct THEN @ + 1 ELSE @,
                          !.results = Append(@, [question |-> q.question,
                                                 candidate_answer |-> user_answer,
                                                 is_correct |-> is_correct]),
                          !.current_question_index = @ + 1]
            IN IF qs1.current_question_index < Len(qs1.questions)
               THEN [sessions |-> Put(sessions, session_key, qs1),
                     ret |-> [text |-> "Scenario Assessment",
                              idx |-> qs1.current_question_index + 1,
                              total |-> Len(qs1.questions),
                              question |-> qs1.questions[qs1.current_question_index + 1].question]]
               ELSE LET scenario_results == [scenario_results |-> qs1.results,
                                             scenario_score |-> qs1.score]
                        started == fitter_start_knowledge_assessment(
                                       Put(sessions, session_key,
                                           [scenario_results |-> scenario_results]),
                                       sample)
                    IN [sessions |-> started.sessions,
                        ret |-> [text |-> "Scenario round completed.",
                                 score |-> scenario_results.scenario_score,
                                 out_of |-> Len(scenario_results.scenario_results),
                                 knowledge |-> started.ret]]

Max(a, b) == IF a >= b THEN a ELSE b

fitter_score_knowledge_answer(sessions, user_answer, is_correct) ==
    LET session_key == fitter_get_session_key("default")
    IN IF \/ session_key \notin DOMAIN sessions
          \/ Get(sessions[session_key], "assessment_type", "None") # "knowledge"
       THEN [sessions |-> sessions,
             ret |-> [text |-> "Knowledge assessment not started. Please start the assessment first."]]
       ELSE LET quiz_state == sessions[session_key]
                current_index == quiz_state.current_question_index
                question == quiz_state.questions[current_index + 1]
                qs1 == [quiz_state EXCEPT
                          !.score = IF is_correct THEN @ + 1 ELSE @,
                          !.results = Append(@, [question |-> question.question,
                                                 candidate_answer |-> user_answer,
                                                 correct_answer |-> question.answer,
                                                 is_correct |-> is_correct]),
                          !.current_question_index = @ + 1]
            IN IF qs1.current_question_index < Len(qs1.questions)
               THEN [sessions |-> Put(sessions, session_key, qs1),
                     ret |-> [text |-> "Next question",
                              question |-> qs1.questions[qs1.current_question_index + 1].question]]
               ELSE LET scenario == Get(qs1, "scenario_results", EmptyDict)
                        scenario_score == Get(scenario, "scenario_score", 0)
                        scenario_count == Len(Get(scenario, "scenario_results", <<>>))
                        knowledge_score == qs1.score
                        knowledge_count == Len(qs1.results)
                        overall_total == scenario_score + knowledge_score
                        overall_max == scenario_count + knowledge_count
                    IN [sessions |-> Del(sessions, session_key),
                        ret |-> [text |-> "Assessment Complete!",
                                 scenario_score |-> scenario_score,
                                 scenario_count |-> scenario_count,
                                 knowledge_score |-> knowledge_score,
                                 knowledge_count |-> knowledge_count,
                                 overall_total |-> overall_total,
                                 overall_max |-> overall_max,
                                 recommendation |->
                                     IF overall_total >= Max(HireThreshold, overall_max - 2)
                                     THEN "Hire" ELSE "Reject"]]

(***************************************************************************)
(* Tool calls of one assessor, one after the other                          *)
(***************************************************************************)
KnowledgeAnswers == {"multimeter"}

\* SessionEntry.__init__: fitter_skill_assessor when the selected skill is
\* "fitter" (any case, stripped), electrician_skill_assessor otherwise
SelectedSkills == {"Electrician", " fitter ", "Fitter"}

ChosenAgent(selected_skill) ==
    IF selected_skill \in {" fitter ", "Fitter"}
    THEN "fitter_skill_assessor" ELSE "electrician_skill_assessor"

\* the tool ran and returned (or raised) out.ret
Returned(name, out) == op' = name /\ ret' = out.ret

ElectricianFrame == UNCHANGED <<PRE_ANALYZED_ANSWERS, fitter_sessions, chosen_agent, notRoundVars>>

FitterFrame == UNCHANGED <<PRE_ANALYZED_ANSWERS, electrician_sessions, chosen_agent, notRoundVars>>

CallStartPhoto ==
    /\ chosen_agent = "electrician_skill_assessor"
    /\ LET out == start_photo_assessment(PRE_ANALYZED_ANSWERS, electrician_sessions)
       IN Returned("start_photo_assessment", out) /\ electrician_sessions' = out.sessions
    /\ ElectricianFrame

CallScorePhoto ==
    /\ chosen_agent = "electrician_skill_assessor"
    /\ \E user_answer \in PhotoAnswers, sample \in ElectricianKnowledgeSamples :
          LET out == score_photo_answer(PRE_ANALYZED_ANSWERS, electrician_sessions,
                                        user_answer, sample)
          IN Returned("score_photo_answer", out) /\ electrician_sessions' = out.sessions
    /\ ElectricianFrame

CallElectricianStartKnowledge ==
    /\ chosen_agent = "electrician_skill_assessor"
    /\ \E sample \in ElectricianKnowledgeSamples :
          LET out == electrician_start_knowledge_assessment(electrician_sessions, sample)
          IN Returned("start_knowledge_assessment", out) /\ electrician_sessions' = out.sessions
    /\ ElectricianFrame

CallElectricianScoreKnowledge ==
    /\ chosen_agent = "electrician_skill_assessor"
    /\ \E user_answer \in KnowledgeAnswers, is_correct \in BOOLEAN :
          LET out == electrician_score_knowledge_answer(electrician_sessions,
                                                        user_answer, is_correct)
          IN Returned("score_knowledge_answer", out) /\ electrician_sessions' = out.sessions
    /\ ElectricianFrame

CallStartScenario ==
    /\ chosen_agent = "fitter_skill_assessor"
    /\ \E order \in ScenarioSamples :
          LET out == start_scenario_assessment(fitter_sessions, order)
          IN Returned("start_scenario_assessment", out) /\ fitter_sessions' = out.sessions
    /\ FitterFrame

CallScoreScenario ==
    /\ chosen_agent = "fitter_skill_assessor"
    /\ \E user_answer \in FitterAnswers, sample \in FitterKnowledgeSamples :
          LET out == score_scenario_answer(fitter_sessions, user_answer, sample)
          IN Returned("score_scenario_answer", out) /\ fitter_sessions' = out.sessions
    /\ FitterFrame

CallFitterStartKnowledge ==
    /\ chosen_agent = "fitter_skill_assessor"
    /\ \E sample \in FitterKnowledgeSamples :
          LET out == fitter_start_knowledge_assessment(fitter_sessions, sample)
          IN Returned("start_knowledge_assessment", out) /\ fitter_sessions' = out.sessions
    /\ FitterFrame

CallFitterScoreKnowledge ==
    /\ chosen_agent = "fitter_skill_assessor"
    /\ \E user_answer \in KnowledgeAnswers, is_correct \in BOOLEAN :
          LET out == fitter_score_knowledge_answer(fitter_sessions, user_answer, is_correct)
          IN Returned("score_knowledge_answer", out) /\ fitter_sessions' = out.sessions
    /\ FitterFrame

(***************************************************************************)
(* Status markers and image references in the agent's final text           *)
(* (src/src/server/a2a_server.py, src/job_assessment_executor.py).         *)
(* A text is a sequence of tokens, each standing for a piece of the string *)
(* that no other token overlaps: "[STATUS:", "completed", "input_required",*)
(* "]", a blank, a newline, "Looking at ", a whole "[Image: path]"         *)
(* reference, a question sentence and a "Final score" sentence.            *)
(***************************************************************************)
CompletedMarker == <<"[STATUS:", "completed", "]">>
InputRequiredMarker == <<"[STATUS:", "input_required", "]">>

Whitespace == {" ", "\n"}

IsPrefix(pat, s) == Len(pat) <= Len(s) /\ SubSeq(s, 1, Len(pat)) = pat

\* pat in s
Contains(s, pat) == \E i \in 0..(Len(s) - Len(pat)) : SubSeq(s, i + 1, i + Len(pat)) = pat

\* s.replace(pat, ""): one left-to-right pass over non-overlapping occurrences
RECURSIVE Replace(_, _)
Replace(s, pat) ==
    IF Len(s) < Len(pat) THEN s
    ELSE IF IsPrefix(pat, s) THEN Replace(SubSeq(s, Len(pat) + 1, Len(s)), pat)
    ELSE <<Head(s)>> \o Replace(Tail(s), pat)

RECURSIVE LStrip(_)
LStrip(s) == IF s # <<>> /\ Head(s) \in Whitespace THEN LStrip(Tail(s)) ELSE s

RECURSIVE RStrip(_)
RStrip(s) ==
    IF s # <<>> /\ s[Len(s)] \in Whitespace THEN RStrip(SubSeq(s, 1, Len(s) - 1)) ELSE s

\* s.strip()
Strip(s) == RStrip(LStrip(s))

\* s.splitlines()
RECURSIVE SplitLines(_, _)
SplitLines(s, line) ==
    IF s = <<>> THEN (IF line = <<>> THEN <<>> ELSE <<line>>)
    ELSE IF Head(s) = "\n" THEN <<line>> \o SplitLines(Tail(s), <<>>)
    ELSE SplitLines(Tail(s), Append(line, Head(s)))

\* A2AServer._determine_response_status
determine_response_status(text) ==
    IF Contains(text, CompletedMarker) THEN "completed"
    ELSE IF Contains(text, InputRequiredMarker) THEN "input_required"
    ELSE "input_required"

\* JobAssessmentAgentExecutor._requires_user_input
requires_user_input(text) == Contains(text, InputRequiredMarker)

\* _clean_response_text, and the same two replace calls in _handle_message_send
clean_response_text(text) == Strip(Replace(Replace(text, CompletedMarker), InputRequiredMarker))

\* "[Image: <path>]" references, each one token
ImageRefs == {"[Image: label_dataset/samples/a1.jpeg]", "[Image: label_dataset/samples/b.jpeg]"}

IsImageRef(tok) == tok \in ImageRefs

\* group(1) of the match
ImagePath(tok) ==
    CASE tok = "[Image: label_dataset/samples/a1.jpeg]" -> "label_dataset/samples/a1.jpeg"
      [] tok = "[Image: label_dataset/samples/b.jpeg]" -> "label_dataset/samples/b.jpeg"

LookingAt == "Looking at "
QuestionSentence == "- Question 1/3: What is the product?"
FinalScoreSentence == "Final score: 2/3"

\* re.search(r'\[Image:\s*([^\]]+)\]', s): the path of the leftmost reference, if any
RECURSIVE SearchImage(_)
SearchImage(s) ==
    IF s = <<>> THEN <<>>
    ELSE IF IsImageRef(Head(s)) THEN <<ImagePath(Head(s))>>
    ELSE SearchImage(Tail(s))

\* every reference of the text, left to right
RECURSIVE AllImageRefs(_)
AllImageRefs(s) ==
    IF s = <<>> THEN <<>>
    ELSE (IF IsImageRef(Head(s)) THEN <<ImagePath(Head(s))>> ELSE <<>>) \o AllImageRefs(Tail(s))

\* img_path.replace('label_dataset/', 'label-media/')
LabelMediaPath(path) ==
    CASE path = "label_dataset/samples/a1.jpeg" -> "label-media/samples/a1.jpeg"
      [] path = "label_dataset/samples/a2.jpeg" -> "label-media/samples/a2.jpeg"
      [] path = "label_dataset/samples/b.jpeg" -> "label-media/samples/b.jpeg"
      [] path = "label_dataset/samples/c.jpeg" -> "label-media/samples/c.jpeg"
      [] path = "label_dataset/samples/d.jpeg" -> "label-media/samples/d.jpeg"
      [] OTHER -> path

FilePart(path) == [type |-> "FilePart", mediaType |-> "image/jpeg",
                   uri |-> <<"BASE_URL", LabelMediaPath(path)>>]

TextPart(text) == [type |-> "TextPart", text |-> text]

\* the lines of _create_response_parts that start with "Looking at [Image:"
\* contribute the first reference each
RECURSIVE CanonicalLineImages(_)
CanonicalLineImages(lines) ==
    IF lines = <<>> THEN <<>>
    ELSE LET line == Strip(Head(lines))
         IN (IF Len(line) >= 2 /\ line[1] = LookingAt /\ IsImageRef(line[2])
             THEN SearchImage(line) ELSE <<>>)
            \o CanonicalLineImages(Tail(lines))

\* JobAssessmentAgentExecutor._create_response_parts (the older "Image: path"
\* line format does not occur in the texts explored)
create_response_parts(text) ==
    LET image_paths ==
            IF \E i \in 1..Len(text) : IsImageRef(text[i])
            THEN CanonicalLineImages(SplitLines(text, <<>>))
            ELSE <<>>
    IN [i \in 1..Len(image_paths) |-> FilePart(image_paths[i])] \o <<TextPart(text)>>

\* the dataset lookup of _format_a2a_response_parts: the first item whose
\* file_path is the path or whose file_paths hold it; its file_paths when it has any
RECURSIVE DatasetImages(_, _)
DatasetImages(label_data, path) ==
    IF label_data = <<>> THEN <<path>>
    ELSE LET item == Head(label_data)
         IN IF \/ Get(item, "file_path", "None") = path
               \/ \E i \in 1..Len(Get(item, "file_paths", <<>>)) : item.file_paths[i] = path
            THEN (IF "file_paths" \in DOMAIN item THEN item.file_paths ELSE <<path>>)
            ELSE DatasetImages(Tail(label_data), path)

\* A2AServer._format_a2a_response_parts
format_a2a_response_parts(text, ds) ==
    LET has_question == \E i \in 1..Len(text) : text[i] = QuestionSentence
        is_completion == \E i \in 1..Len(text) : text[i] = FinalScoreSentence
        looking_at == \E i \in 1..Len(text) : text[i] = LookingAt
        image_match == SearchImage(text)
        image_paths ==
            IF has_question /\ ~is_completion /\ looking_at /\ image_match # <<>>
            THEN (IF ds.exists THEN DatasetImages(ds.label_data, image_match[1])
                  ELSE image_match)
            ELSE <<>>
    IN [i \in 1..Len(image_paths) |-> FilePart(image_paths[i])] \o <<TextPart(text)>>

StatusTokens == {"[STATUS:", "completed", "input_required", "]", " "}

PromptTokens == ImageRefs \cup {LookingAt, QuestionSentence, FinalScoreSentence, "\n"}

\* what the agent may answer: a body that may hold the markers or pieces of
\* them, alone or with the completion marker appended; or a prompt with image
\* references, alone or followed by either marker
MarkerTexts ==
    LET bodies == SeqsUpTo(StatusTokens, MaxBodyLen)
    IN bodies \cup {body \o CompletedMarker : body \in bodies}

PromptTexts ==
    {prompt \o marker : prompt \in SeqsUpTo(PromptTokens, MaxPromptLen),
                        marker \in {<<>>, InputRequiredMarker, CompletedMarker}}

\* index.json as the Flask server may find it
TurnDatasets ==
    { [exists |-> FALSE, label_data |-> <<>>],
      [exists |-> TRUE,
       label_data |-> << [category |-> "grocery",
                          fields |-> [product |-> "Rice"],
                          file_paths |-> <<"label_dataset/samples/a1.jpeg",
                                           "label_dataset/samples/a2.jpeg">>],
                         [category |-> "warehouse",
                          fields |-> [product |-> "Bulb"],
                          file_path |-> "label_dataset/samples/b.jpeg"] >>] }

\* A2AServer._handle_message_send from the agent's response on
HandleMessageSend ==
    /\ delivered = NotDelivered
    /\ LET status == determine_response_status(response_text)
           clean_response_text_ == clean_response_text(response_text)
           response_parts == format_a2a_response_parts(clean_response_text_, dataset)
       IN delivered' = [path |-> "a2a_server", status |-> status, parts |-> response_parts]
    /\ op' = "_handle_message_send"
    /\ ret' = [text |-> "ok"]
    /\ UNCHANGED <<response_text, dataset, state, notTurnVars>>

\* JobAssessmentAgentExecutor.execute from the agent's response on: the task
\* is set to input_required with the parts, or gets the cleaned text as its
\* artifact and is completed
Execute ==
    /\ delivered = NotDelivered
    /\ LET requires_input == requires_user_input(response_text)
           clean_response == clean_response_text(response_text)
       IN IF requires_input
          THEN delivered' = [path |-> "executor", status |-> "input_required",
                             parts |-> create_response_parts(clean_response)]
          ELSE delivered' = [path |-> "executor", status |-> "completed",
                             parts |-> <<TextPart(clean_response)>>]
    /\ op' = "execute"
    /\ ret' = [text |-> "ok"]
    /\ UNCHANGED <<response_text, dataset, state, notTurnVars>>

TurnInit ==
    /\ op = "none"
    /\ ret = [text |-> "none"]
    /\ \/ response_text \in MarkerTexts /\ dataset = [exists |-> FALSE, label_data |-> <<>>]
       \/ response_text \in PromptTexts /\ dataset \in TurnDatasets
    /\ delivered = NotDelivered
    /\ state = EmptyDict
    /\ scored = NoneScored
    /\ RoundsIdle
    /\ WhatsAppIdle
    /\ VerdictIdle

TurnNext ==
    \/ HandleMessageSend
    \/ Execute

SpecTurn == TurnInit /\ [][TurnNext]_vars

RoundsInit ==
    /\ op = "none"
    /\ ret = [text |-> "none"]
    /\ PRE_ANALYZED_ANSWERS \in PreAnalyzedChoices
    /\ electrician_sessions = EmptyDict
    /\ fitter_sessions = EmptyDict
    /\ \E selected_skill \in SelectedSkills : chosen_agent = ChosenAgent(selected_skill)
    /\ QuizIdle
    /\ TurnIdle
    /\ WhatsAppIdle
    /\ VerdictIdle

RoundsNext ==
    \/ CallStartPhoto
    \/ CallScorePhoto
    \/ CallElectricianStartKnowledge
    \/ CallElectricianScoreKnowledge
    \/ CallStartScenario
    \/ CallScoreScenario
    \/ CallFitterStartKnowledge
    \/ CallFitterScoreKnowledge

SpecRounds == RoundsInit /\ [][RoundsNext]_vars

QuizInit ==
    /\ dataset \in Datasets
    /\ state = EmptyDict
    /\ ret = [text |-> "none"]
    /\ op = "none"
    /\ scored = NoneScored
    /\ RoundsIdle
    /\ WhatsAppIdle
    /\ TurnIdle
    /\ VerdictIdle

QuizNext ==
    \/ start_label_reading_quiz
    \/ \E a \in UserAnswers : answer_quiz_question(a)
    \/ \E b \in BOOLEAN : update_quiz_score_and_continue(b)

SpecQuiz == QuizInit /\ [][QuizNext]_vars

(***************************************************************************)
(* Claims about the label-reading quiz (checked under SpecQuiz)            *)
(***************************************************************************)
StoredQuizActive == "label_reading_quiz" \in DOMAIN state /\ state["label_reading_quiz"].quiz_active

\* C1: start_label_reading_quiz on a session whose quiz is active returns the
\* 'Quiz is already active' error and leaves the whole quiz (questions,
\* current_question, correct_answers, quiz_active) as it was.
C1_StartWhileActiveRejected ==
    [][(op' = "start_label_reading_quiz" /\ StoredQuizActive)
         => (ret' = [error |-> AlreadyActiveError] /\ state' = state)]_vars

\* a start was rejected on a quiz that already has answered questions
C1_Witness ==
    /\ op = "start_label_reading_quiz"
    /\ ret = [error |-> AlreadyActiveError]
    /\ StoredQuizActive
    /\ Quiz.current_question >= 1
    /\ Quiz.correct_answers >= 1

\* C4: every update_quiz_score_and_continue on an active quiz moves
\* current_question up by exactly 1 and correct_answers by 1 when is_correct
\* and by 0 otherwise; correct_answers never decreases while the quiz is active.
C4_ScoreStep ==
    [][/\ (op' = "update_quiz_score_and_continue" /\ StoredQuizActive)
            => /\ scored'.calls = scored.calls + 1
               /\ Quiz'.current_question = Quiz.current_question + 1
               /\ Quiz'.correct_answers =
                     Quiz.correct_answers + (IF scored'.last THEN 1 ELSE 0)
       /\ (StoredQuizActive /\ StoredQuizActive')
            => Quiz'.correct_answers >= Quiz.correct_answers]_vars

\* an incorrect answer was scored after a correct one: the cursor is at 2, the score at 1
C4_Witness ==
    /\ op = "update_quiz_score_and_continue"
    /\ scored = [calls |-> 2, correct |-> 1, last |-> FALSE]
    /\ StoredQuizActive
    /\ Quiz.current_question = 2
    /\ Quiz.correct_answers = 1

\* C5: on a quiz started with N >= 1 questions the first N-1 score calls
\* return continue_quiz and keep the quiz active; the N-th returns
\* quiz_completed with total_questions = N and final_score = the number of
\* calls with is_correct = true, and makes the quiz inactive.
C5_CompletionAfterN ==
    [][(/\ op' = "update_quiz_score_and_continue"
        /\ StoredQuizActive
        /\ Len(Quiz.questions) >= 1)
         => LET N == Len(Quiz.questions)
            IN /\ scored'.calls = scored.calls + 1
               /\ scored'.calls <= N
               /\ scored'.calls < N =>
                     /\ ret'.action = "continue_quiz"
                     /\ Quiz'.quiz_active
               /\ scored'.calls = N =>
                     /\ ret'.action = "quiz_completed"
                     /\ ret'.total_questions = N
                     /\ ret'.final_score = scored'.correct
                     /\ ~Quiz'.quiz_active]_vars

\* three questions, two correct and one incorrect answer: score 2 of 3
C5_Witness ==
    /\ op = "update_quiz_score_and_continue"
    /\ scored = [calls |-> 3, correct |-> 2, last |-> FALSE]
    /\ "action" \in DOMAIN ret
    /\ ret.action = "quiz_completed"
    /\ ret.final_score = 2
    /\ ret.total_questions = 3
    /\ ~Quiz.quiz_active

\* C6: with no active quiz (never started, or completed) answer_quiz_question
\* and update_quiz_score_and_continue return their 'No active quiz found'
\* result as a value and leave the session state unchanged.
C6_NoActiveQuiz ==
    [][(~StoredQuizActive /\ op' \in {"answer_quiz_question", "update_quiz_score_and_continue"})
         => /\ state' = state
            /\ op' = "answer_quiz_question" => ret' = [error |-> NoActiveQuizAnswer]
            /\ op' = "update_quiz_score_and_continue" => ret' = [error |-> NoActiveQuizUpdate]]_vars

\* a score call was turned away on a quiz that had been completed before
C6_Witness ==
    /\ op = "update_quiz_score_and_continue"
    /\ ret = [error |-> NoActiveQuizUpdate]
    /\ "label_reading_quiz" \in DOMAIN state
    /\ ~Quiz.quiz_active
    /\ Quiz.current_question = Len(Quiz.questions)

(***************************************************************************)
(* Claims about the electrician and fitter rounds (checked under SpecRounds) *)
(***************************************************************************)
\* the quiz dict of the session the chosen assessor's tools work on
RoundSession ==
    IF chosen_agent = "fitter_skill_assessor"
    THEN Get(fitter_sessions, fitter_get_session_key("default"), EmptyDict)
    ELSE Get(electrician_sessions, electrician_get_session_key("default"), EmptyDict)

\* some questions of the running round are answered and some are left
RoundInProgress(session) ==
    /\ {"questions", "current_question_index"} \subseteq DOMAIN session
    /\ session.current_question_index >= 1
    /\ session.current_question_index < Len(session.questions)

RoundProgress(session) ==
    <<session.questions, session.current_question_index, session.score, session.results>>

StartOperations ==
    {"start_photo_assessment", "start_scenario_assessment", "start_knowledge_assessment"}

\* C3: a start operation called while a round is in progress is rejected: the
\* questions, current_question_index, score and results of the running round
\* stay as they were.
C3_StartRejectedWhileInProgress ==
    [][(op' \in StartOperations /\ RoundInProgress(RoundSession))
         => /\ RoundInProgress(RoundSession')
            /\ RoundProgress(RoundSession') = RoundProgress(RoundSession)]_vars

(***************************************************************************)
(* Claims about the classification of a turn (checked under SpecTurn)      *)
(***************************************************************************)
Delivered == delivered # NotDelivered

\* the text part closes the parts; its text is the cleaned response
DeliveredText == delivered.parts[Len(delivered.parts)].text

IsSuffix(pat, s) == Len(pat) <= Len(s) /\ SubSeq(s, Len(s) - Len(pat) + 1, Len(s)) = pat

\* C7: a final text with neither [STATUS:completed] nor [STATUS:input_required]
\* is classified input_required, and the task is not closed, on both delivery
\* paths.
C7_NoMarkerMeansInputRequired ==
    (/\ Delivered
     /\ ~Contains(response_text, CompletedMarker)
     /\ ~Contains(response_text, InputRequiredMarker))
        => delivered.status = "input_required"

\* C8: a body with the completion marker appended is classified completed,
\* and the cleaned text holds neither marker, whatever the body contains.
C8_AppendedMarkerRoundTrip ==
    (Delivered /\ IsSuffix(CompletedMarker, response_text))
        => /\ delivered.status = "completed"
           /\ ~Contains(DeliveredText, CompletedMarker)
           /\ ~Contains(DeliveredText, InputRequiredMarker)

\* a question prompt whose "Looking at" line carries the references and that
\* asks for more input
CanonicalPrompt(text) ==
    /\ Len(text) >= 2
    /\ text[1] = LookingAt
    /\ IsImageRef(text[2])
    /\ \E i \in 1..Len(text) : text[i] = QuestionSentence
    /\ \A i \in 1..Len(text) : text[i] # FinalScoreSentence
    /\ IsSuffix(InputRequiredMarker, text)

\* C9: a response with several [Image: ...] references is delivered as one
\* image part per reference, in order of appearance, followed by the text part.
C9_OneImagePartPerReference ==
    (/\ Delivered
     /\ CanonicalPrompt(response_text)
     /\ Len(AllImageRefs(response_text)) >= 2)
        => LET refs == AllImageRefs(response_text)
           IN /\ Len(delivered.parts) = Len(refs) + 1
              /\ \A i \in 1..Len(refs) : delivered.parts[i] = FilePart(refs[i])
              /\ delivered.parts[Len(refs) + 1].type = "TextPart"

(***************************************************************************)
(* WhatsApp webhook and background turns                                   *)
(* (src/electrician_skill_agent/whatsapp.py).  Each webhook request        *)
(* schedules one process_agent_and_reply coroutine.  A coroutine runs      *)
(* without interruption up to runner.run_async, where it waits for the     *)
(* model; between two waits the runner executes one tool the model asked   *)
(* for.  Twilio's text sends are taken not to raise.  SpecWhatsApp and      *)
(* SpecTwoUsers explore the turns whose agent runs all succeed; SpecRetry  *)
(* explores one turn whose agent runs can raise at any wait.               *)
(***************************************************************************)
MaxMessages == 2    \* most webhook requests explored
MaxToolCalls == 2   \* most tool calls explored

\* the From form field and the phone number left by From.replace("whatsapp:", "")
Froms == {"whatsapp:+911", ""}

PhoneNumber(From) ==
    CASE From = "whatsapp:+911" -> "+911"
      [] From = "whatsapp:+912" -> "+912"
      [] OTHER -> From

\* the Body form field
Bodies == {"", "1", "2", " Menu ", "assessment", "interview", "Hi"}

assessment_start_message == "I want to start a general interview assessment."

\* incoming_text.lower().strip()
IncomingLower(incoming_text) ==
    CASE incoming_text = " Menu " -> "menu"
      [] incoming_text = "Hi" -> "hi"
      [] incoming_text = "Start assessment" -> "start assessment"
      [] incoming_text = assessment_start_message -> "i want to start a general interview assessment."
      [] OTHER -> incoming_text

MenuCommands == {"menu", "switch", "options", "home", "back"}

InterviewCommands ==
    {"interview", "interview prep", "interview preparation", "learning", "study"}

AssessmentCommands == {"assessment", "skill assessment", "test", "evaluation", "skills"}

InterviewSelections == {"1", "one", "interview preparation", "interview prep", "interview"}

SkillSelections == {"2", "two", "skill assessment", "skill test", "assessment"}

\* SessionEntry.__init__
SessionEntry(agent_type, selected_skill, available) ==
    [ agent_type |-> agent_type,
      selected_skill |-> selected_skill,
      runner |-> IF agent_type = "interview_prep" /\ available
                 THEN "interview_prep_agent"
                 ELSE ChosenAgent(selected_skill),
      session_id |-> "None",
      agent_selected |-> FALSE,
      has_state |-> FALSE,          \* whether the _state attribute was ever set
      session_state |-> EmptyDict,  \* the _state attribute
      new_user_session |-> FALSE ]

\* a SessionEntry with agent_selected = True
Selected(entry) == [entry EXCEPT !.agent_selected = TRUE]

\* SessionEntry.ensure: the ADK session is created on first use
ensure(session) ==
    IF session.session_id = "None" THEN [session EXCEPT !.session_id = "uuid4"] ELSE session

\* session._state[k] = v, creating the attribute when it is missing
SetState(session, k, v) ==
    [session EXCEPT !.has_state = TRUE, !.session_state = Put(@, k, v)]

\* session.__dict__.get('_state', {})
StateOf(session) == IF session.has_state THEN session.session_state ELSE EmptyDict

\* what the database and Twilio answer during one call
Environments == [has_progress : BOOLEAN, saved_role : BOOLEAN, menu_sent : BOOLEAN]

mut_Returns(S, sent) == [SESSIONS |-> S, sent |-> <<>>, run_async |-> FALSE]

\* the coroutine returned after sending sent
Returns(S, sent) == [SESSIONS |-> S, sent |-> sent, run_async |-> FALSE]

\* the coroutine reached runner.run_async of the session's runner
Awaits(S, sent, session, incoming_text) ==
    [ SESSIONS |-> S, sent |-> sent, run_async |-> TRUE,
      runner |-> session.runner, agent_type |-> session.agent_type,
      new_message |-> IF incoming_text = "" THEN "Start assessment" ELSE incoming_text ]

\* the messages a waiting turn has handed to the model, which reads them and
\* answers as it sees fit
HandedOver == "new_message"

\* process_agent_and_reply up to its return or to runner.run_async: the
\* sessions it leaves, the messages it sent, and where it stands
RECURSIVE process_agent_and_reply(_, _, _, _, _)
process_agent_and_reply(S, available, phone_number, text, env) ==
    IF phone_number \notin DOMAIN S
    THEN Returns(Put(S, phone_number,
                     [Selected(SessionEntry("interview_prep", "Electrician", available))
                        EXCEPT !.has_state = TRUE]),
                 <<"welcome_role_menu">>)
    ELSE
    LET session == S[phone_number]
        \* await process_agent_and_reply(phone_number, "Hi")
        Again(S2, sent) ==
            LET inner == process_agent_and_reply(S2, available, phone_number, "Hi", env)
            IN [inner EXCEPT !.sent = sent \o @]
        SwitchToSkill(S2, selected_skill, sent) ==
            Again(Put(S2, phone_number,
                      Selected(SessionEntry("skill_assessment", selected_skill, available))),
                  sent)
        \* "Handle agent selection if not done yet"
        Selection(S2, incoming_lower, sent) ==
            IF incoming_lower \in InterviewSelections
            THEN IF available
                 THEN Returns(Put(S2, phone_number,
                                  Selected(SessionEntry("interview_prep", "Electrician", available))),
                              sent \o <<IF env.saved_role THEN "interview_welcome_activity_menu"
                                        ELSE "interview_welcome_role_menu">>)
                 ELSE Returns(Put(S2, phone_number,
                                  Selected(SessionEntry("skill_assessment", "Electrician", available))),
                              sent \o <<"interview_unavailable", "skill_welcome">>)
            ELSE IF incoming_lower \in SkillSelections
            THEN Returns(Put(S2, phone_number,
                             Selected(SessionEntry("skill_assessment", "Electrician", available))),
                         sent \o <<"skill_welcome">>)
            ELSE Returns(S2, sent \o <<"selection_retry">>)
        \* from "Check for agent switching commands (works anytime)" on; the
        \* local variable session is cur
        Routing(S2, cur, incoming_text, sent) ==
            LET incoming_lower == IncomingLower(incoming_text)
            IN IF incoming_lower \in MenuCommands
               THEN Returns(Put(S2, phone_number, SessionEntry("menu", "Electrician", available)),
                            sent \o <<IF env.menu_sent THEN "selection_menu"
                                      ELSE "selection_prompt">>)
               ELSE IF incoming_lower \in InterviewCommands
               THEN Returns(Put(S2, phone_number,
                                Selected(SessionEntry("interview_prep", "Electrician", available))),
                            sent \o <<"switched_to_interview_prep">>)
               ELSE IF incoming_lower \in AssessmentCommands
               THEN SwitchToSkill(S2, Get(StateOf(S2[phone_number]), "selected_role", "Electrician"),
                                  sent)
               ELSE IF ~cur.agent_selected
               THEN Selection(S2, incoming_lower, sent)
               ELSE Awaits(Put(S2, phone_number, ensure(cur)), sent, cur, incoming_text)
        incoming_lower == IncomingLower(text)
        session_state == StateOf(session)
        role_selected == Get(session_state, "role_selected", FALSE)
        activity_selected == Get(session_state, "activity_selected", FALSE)
        waiting == Get(session_state, "waiting_for_assessment_type", FALSE)
    IN
    IF ~(session.agent_type = "interview_prep" /\ session.agent_selected)
    THEN Routing(S, session, text, <<>>)
    ELSE IF incoming_lower \in AssessmentCommands
    THEN SwitchToSkill(S, "Electrician", <<"switched_to_skill_assessment">>)
    ELSE IF ~role_selected
    THEN IF incoming_lower \in {"1", "2"}
         THEN LET selected_role == IF incoming_lower = "1" THEN "Electrician" ELSE "Fitter"
                  chosen == SetState(SetState(SetState(session,
                                "role_selected", TRUE),
                                "selected_role", selected_role),
                                "new_user_session", TRUE)
              IN Returns(Put(S, phone_number, chosen), <<"activity_menu">>)
         ELSE Returns(S, <<"role_retry">>)
    ELSE IF ~activity_selected /\ incoming_lower \in {"1", "2"}
    THEN LET marked == SetState(SetState(session,
                           "activity_selected", TRUE),
                           "selected_activity",
                           IF incoming_lower = "1" THEN "practice" ELSE "assessment")
         IN IF incoming_lower = "1"
            THEN IF env.has_progress
                 THEN Again(Put(S, phone_number, SetState(marked, "new_user_session", FALSE)),
                            <<"continue_learning">>)
                 ELSE Again(Put(S, phone_number,
                                [SetState(marked, "new_user_session", TRUE)
                                    EXCEPT !.new_user_session = TRUE]),
                            <<"practice_intro">>)
            ELSE Returns(Put(S, phone_number,
                             SetState(marked, "waiting_for_assessment_type", TRUE)),
                         <<"assessment_type_menu">>)
    ELSE IF ~activity_selected
    THEN Returns(S, <<"activity_retry">>)
    ELSE IF ~waiting
    THEN Routing(S, session, text, <<>>)
    ELSE IF incoming_lower = "1"
    THEN LET general == SetState(SetState(SetState(session,
                            "assessment_mode", TRUE),
                            "assessment_type", "general"),
                            "waiting_for_assessment_type", FALSE)
         IN Routing(Put(S, phone_number, general), general, assessment_start_message,
                    <<"general_assessment_intro">>)
    ELSE IF incoming_lower = "2"
    THEN SwitchToSkill(S, Get(session_state, "selected_role", "Electrician"),
                       <<"technical_assessment_intro">>)
    ELSE Returns(S, <<"assessment_type_retry">>)

\* a coroutine the webhook scheduled and that has not started
Scheduled(phone_number, incoming_text) ==
    [ phone_number |-> phone_number, incoming_text |-> incoming_text, pc |-> "scheduled",
      runner |-> "none", agent_type |-> "none",
      errors |-> <<>>, slept |-> <<>>,
      before |-> [electrician |-> EmptyDict, fitter |-> EmptyDict] ]

\* s without its i-th element
Remove(s, i) == SubSeq(s, 1, i - 1) \o SubSeq(s, i + 1, Len(s))

WhatsAppFrame ==
    UNCHANGED <<INTERVIEW_PREP_AVAILABLE, PRE_ANALYZED_ANSWERS, senders, notWhatsAppVars>>

\* twilio_whatsapp_webhook: acknowledge at once, process in a background task
TwilioWebhook ==
    /\ received < MaxMessages
    /\ \E From \in senders, Body \in Bodies, num_media \in {0, 1} :
          LET phone_number == PhoneNumber(From)
              incoming_text ==
                  IF Body = "" /\ num_media = 0
                  THEN IF phone_number \notin DOMAIN SESSIONS THEN "start"
                       ELSE IF ~SESSIONS[phone_number].agent_selected THEN "start"
                       ELSE IF SESSIONS[phone_number].agent_type = "skill_assessment"
                            THEN "Start assessment"
                       ELSE "Hi"
                  ELSE Body
          IN tasks' = IF phone_number = "" THEN tasks
                      ELSE Append(tasks, Scheduled(phone_number, incoming_text))
    /\ received' = received + 1
    /\ op' = "twilio_whatsapp_webhook"
    /\ ret' = [text |-> ""]
    /\ UNCHANGED <<SESSIONS, tool_calls, caller, electrician_sessions, fitter_sessions>>
    /\ WhatsAppFrame

\* a scheduled coroutine runs until it returns or waits for the model
StartTask ==
    /\ \E i \in 1..Len(tasks), env \in Environments :
          /\ tasks[i].pc = "scheduled"
          /\ LET out == process_agent_and_reply(SESSIONS, INTERVIEW_PREP_AVAILABLE,
                                                tasks[i].phone_number,
                                                tasks[i].incoming_text, env)
             IN /\ SESSIONS' = out.SESSIONS
                /\ ret' = [sent |-> out.sent]
                /\ tasks' = IF out.run_async
                            THEN [tasks EXCEPT ![i] =
                                    [@ EXCEPT !.pc = "run_async",
                                              !.incoming_text = HandedOver,
                                              !.runner = out.runner,
                                              !.agent_type = out.agent_type,
                                              !.before =
                                                 [electrician |-> electrician_sessions,
                                                  fitter |-> fitter_sessions]]]
                            ELSE Remove(tasks, i)
    /\ op' = "process_agent_and_reply"
    /\ UNCHANGED <<received, tool_calls, caller, electrician_sessions, fitter_sessions>>
    /\ WhatsAppFrame

\* the runner of a waiting turn executes a tool of the electrician assessor
RunnerCallsElectricianTool ==
    /\ \E i \in 1..Len(tasks) :
          /\ tasks[i].pc = "run_async"
          /\ tasks[i].runner = "electrician_skill_assessor"
          /\ caller' = tasks[i].phone_number
    /\ tool_calls < MaxToolCalls
    /\ tool_calls' = tool_calls + 1
    /\ \/ LET out == start_photo_assessment(PRE_ANALYZED_ANSWERS, electrician_sessions)
          IN Returned("start_photo_assessment", out) /\ electrician_sessions' = out.sessions
       \/ \E user_answer \in PhotoAnswers, sample \in ElectricianKnowledgeSamples :
             LET out == score_photo_answer(PRE_ANALYZED_ANSWERS, electrician_sessions,
                                           user_answer, sample)
             IN Returned("score_photo_answer", out) /\ electrician_sessions' = out.sessions
       \/ \E sample \in ElectricianKnowledgeSamples :
             LET out == electrician_start_knowledge_assessment(electrician_sessions, sample)
             IN Returned("start_knowledge_assessment", out)
                /\ electrician_sessions' = out.sessions
       \/ \E user_answer \in KnowledgeAnswers, is_correct \in BOOLEAN :
             LET out == electrician_score_knowledge_answer(electrician_sessions,
                                                           user_answer, is_correct)
             IN Returned("score_knowledge_answer", out) /\ electrician_sessions' = out.sessions
    /\ UNCHANGED <<SESSIONS, tasks, received, fitter_sessions>>
    /\ WhatsAppFrame

\* the runner of a waiting turn executes a tool of the fitter assessor
RunnerCallsFitterTool ==
    /\ \E i \in 1..Len(tasks) :
          /\ tasks[i].pc = "run_async"
          /\ tasks[i].runner = "fitter_skill_assessor"
          /\ caller' = tasks[i].phone_number
    /\ tool_calls < MaxToolCalls
    /\ tool_calls' = tool_calls + 1
    /\ \/ \E order \in ScenarioSamples :
             LET out == start_scenario_assessment(fitter_sessions, order)
             IN Returned("start_scenario_assessment", out) /\ fitter_sessions' = out.sessions
       \/ \E user_answer \in FitterAnswers, sample \in FitterKnowledgeSamples :
             LET out == score_scenario_answer(fitter_sessions, user_answer, sample)
             IN Returned("score_scenario_answer", out) /\ fitter_sessions' = out.sessions
       \/ \E sample \in FitterKnowledgeSamples :
             LET out == fitter_start_knowledge_assessment(fitter_sessions, sample)
             IN Returned("start_knowledge_assessment", out) /\ fitter_sessions' = out.sessions
       \/ \E user_answer \in KnowledgeAnswers, is_correct \in BOOLEAN :
             LET out == fitter_score_knowledge_answer(fitter_sessions, user_answer, is_correct)
             IN Returned("score_knowledge_answer", out) /\ fitter_sessions' = out.sessions
    /\ UNCHANGED <<SESSIONS, tasks, received, electrician_sessions>>
    /\ WhatsAppFrame

\* what the interview-prep branch sends: the cleaned final text, or an apology
\* when it is empty
InterviewReplies == {"response_text", "technical_issue"}

\* the lines of a final text of the skill assessor: the model's words, a
\* Markdown image, a line "Image Path: <path>"
Words == "words"
MarkdownImage == "![](path)"
ImagePathLine == "Image Path: path"
FinalTexts ==
    { <<>>, <<Words>>, <<Words, MarkdownImage>>, <<MarkdownImage>>,
      <<Words, ImagePathLine>>, <<ImagePathLine>> }

\* what the run of the skill assessor produced and whether
\* local_image_to_public_url maps its image to a URL (it returns None when no
\* base URL is known or when mapping the path raises)
FinalResponses ==
    [response_text : FinalTexts, media_payload : BOOLEAN, img_url : BOOLEAN]

Without(text, line) == SelectSeq(text, LAMBDA l : l # line)

send_media(caption) == [method |-> "send_media", body |-> caption]
send_whatsapp(body) == [method |-> "send_whatsapp", body |-> body]

\* the reply of the skill-assessment branch after the first run of the agent
skill_reply(final) ==
    LET reply_text == IF final.response_text = <<>>
                         THEN <<"Sorry, I couldn't generate a response">>
                         ELSE final.response_text
    IN IF final.media_payload
       THEN IF final.img_url THEN send_media(reply_text)
            ELSE send_whatsapp(Append(reply_text, "(Image unavailable)"))
       ELSE IF Contains(reply_text, <<MarkdownImage>>)
       THEN LET caption == Without(reply_text, MarkdownImage)
            IN IF final.img_url THEN send_media(caption)
               ELSE send_whatsapp(IF caption # <<>> THEN caption
                                  ELSE <<"Please look at the image.">>)
       ELSE IF Contains(reply_text, <<ImagePathLine>>)
       THEN LET caption == Without(reply_text, ImagePathLine)
            IN IF final.img_url THEN send_media(caption)
               ELSE send_whatsapp(IF caption # <<>> THEN caption
                                  ELSE <<"Please look at the image.">>)
       ELSE send_whatsapp(reply_text)

\* the reply of the skill-assessment branch after a retried run
skill_retry_reply(final) ==
    LET reply_text == IF final.response_text = <<>>
                         THEN <<"Sorry, I couldn't generate a response">>
                         ELSE final.response_text
    IN IF final.media_payload
       THEN IF final.img_url THEN send_media(reply_text)
            ELSE send_whatsapp(Append(reply_text, "(Image unavailable)"))
       ELSE send_whatsapp(reply_text)

\* the model's final response arrives: the coroutine replies and returns
RunnerFinalResponse ==
    /\ \E i \in 1..Len(tasks) :
          /\ tasks[i].pc = "run_async"
          /\ caller' = tasks[i].phone_number
          /\ IF tasks[i].agent_type = "interview_prep"
             THEN \E reply \in InterviewReplies : ret' = [sent |-> <<reply>>]
             ELSE \E final \in FinalResponses :
                     ret' = [sent |-> <<IF tasks[i].errors = <<>>
                                        THEN skill_reply(final)
                                        ELSE skill_retry_reply(final)>>,
                             final |-> final]
          /\ tasks' = Remove(tasks, i)
    /\ op' = "process_agent_and_reply"
    /\ UNCHANGED <<SESSIONS, received, tool_calls, electrician_sessions, fitter_sessions>>
    /\ WhatsAppFrame

\* the exceptions a run of the agent raises, as the words of str(e).lower()
Errors == { <<"503", "overloaded">>, <<"401", "unauthorized">> }

retryable_patterns ==
    { <<"500">>, <<"internal">>, <<"503">>, <<"overloaded">>, <<"unavailable">>,
      <<"504">>, <<"deadline">>, <<"timeout">>, <<"rate">>, <<"quota">>, <<"limit">>,
      <<"429">> }

should_retry_error(error_msg) ==
    \E pattern \in retryable_patterns : Contains(error_msg, pattern)

max_retries == 3

mut_delay(retry_attempt) == 2 ^ 0

\* the pause before retry retry_attempt (0, 1, 2): 1s, 2s, 4s
delay(retry_attempt) == 2 ^ retry_attempt

\* the apology chosen from the exception the turn ended with
user_message(error_msg) ==
    IF Contains(error_msg, <<"500">>) \/ Contains(error_msg, <<"internal">>)
    THEN "technical_issues"
    ELSE IF \/ Contains(error_msg, <<"503">>)
            \/ Contains(error_msg, <<"overloaded">>)
            \/ Contains(error_msg, <<"unavailable">>)
    THEN "ai_service_busy"
    ELSE IF \/ Contains(error_msg, <<"rate">>)
            \/ Contains(error_msg, <<"quota">>)
            \/ Contains(error_msg, <<"limit">>)
    THEN "too_many_requests"
    ELSE IF Contains(error_msg, <<"timeout">>)
    THEN "timed_out"
    ELSE "trouble_processing"

\* runner.run_async raised error_msg in task: the except clause of the branch
\* the turn is in.  The first failure is retried when should_retry_error says
\* so; a failure of a retry is retried until max_retries retries have failed.
\* A retry sends the same new_message to the same runner.
handle_run_error(task, error_msg) ==
    LET errors == Append(task.errors, error_msg)
        retry_attempt == Len(errors) - 1
    IN IF (Len(errors) = 1 /\ should_retry_error(error_msg))
          \/ (Len(errors) > 1 /\ retry_attempt < max_retries)
       THEN [ returned |-> FALSE,
              sent |-> IF retry_attempt = 0 THEN <<"retrying">> ELSE <<>>,
              task |-> [task EXCEPT !.errors = errors,
                                    !.slept = Append(@, delay(retry_attempt))] ]
       ELSE [ returned |-> TRUE,
              sent |-> <<user_message(error_msg), "help_msg">>,
              task |-> [task EXCEPT !.errors = errors] ]

\* a run of the agent raises while the turn waits for it
RunnerRaises ==
    /\ \E i \in 1..Len(tasks), error_msg \in Errors :
          LET out == handle_run_error(tasks[i], error_msg)
          IN /\ tasks[i].pc = "run_async"
             /\ caller' = tasks[i].phone_number
             /\ ret' = [sent |-> out.sent, errors |-> out.task.errors,
                        slept |-> out.task.slept, returned |-> out.returned]
             /\ tasks' = IF out.returned THEN Remove(tasks, i)
                         ELSE [tasks EXCEPT ![i] = out.task]
    /\ op' = "run_async_raised"
    /\ UNCHANGED <<SESSIONS, received, tool_calls, electrician_sessions, fitter_sessions>>
    /\ WhatsAppFrame

\* the sessions a phone number can be left with once its turns have returned:
\* none yet, or a skill-assessment session that a switch created and used
SettledSessions(available) ==
    { ensure(Selected(SessionEntry("skill_assessment", selected_skill, available)))
        : selected_skill \in {"Electrician", "Fitter"} }

\* initialize_pre_analyzed_answers on a folder that holds one photo
OnePhotoAnalyzed == {pre \in PreAnalyzedChoices : DOMAIN pre = {RelativePath(1)}}

WhatsAppInit ==
    /\ op = "none"
    /\ ret = [text |-> "none"]
    /\ INTERVIEW_PREP_AVAILABLE \in BOOLEAN
    /\ senders = Froms
    /\ caller = "none"
    /\ \E known \in SUBSET {PhoneNumber(From) : From \in Froms \ {""}} :
          SESSIONS \in [known -> SettledSessions(INTERVIEW_PREP_AVAILABLE)]
    /\ tasks = <<>>
    /\ received = 0
    /\ tool_calls = 0
    /\ PRE_ANALYZED_ANSWERS \in OnePhotoAnalyzed
    /\ electrician_sessions = EmptyDict
    /\ fitter_sessions = EmptyDict
    /\ chosen_agent = "electrician_skill_assessor"
    /\ QuizIdle
    /\ TurnIdle
    /\ VerdictIdle

WhatsAppNext ==
    \/ TwilioWebhook
    \/ StartTask
    \/ RunnerCallsElectricianTool
    \/ RunnerCallsFitterTool
    \/ RunnerFinalResponse

SpecWhatsApp == WhatsAppInit /\ [][WhatsAppNext]_vars

(***************************************************************************)
(* Claims about concurrent turns (checked under SpecWhatsApp)              *)
(***************************************************************************)
\* the turn has started and has not returned
InFlight(task) == task.pc = "run_async"

\* C10: while a turn of a session key is in flight, a second message for the
\* same key is queued (or rejected): two turns of one key are never in flight
\* together.
C10_TurnsOfOneKeySerialized ==
    \A i, j \in 1..Len(tasks) :
        (i # j /\ tasks[i].phone_number = tasks[j].phone_number)
            => ~(InFlight(tasks[i]) /\ InFlight(tasks[j]))

(***************************************************************************)
(* Two WhatsApp users taking a skill assessment                            *)
(***************************************************************************)
TwoFroms == {"whatsapp:+911", "whatsapp:+912"}

\* both users have switched to the skill assessment; the folder holds one photo
TwoUsersInit ==
    /\ op = "none"
    /\ ret = [text |-> "none"]
    /\ INTERVIEW_PREP_AVAILABLE \in BOOLEAN
    /\ senders = TwoFroms
    /\ caller = "none"
    /\ SESSIONS \in [{PhoneNumber(From) : From \in TwoFroms}
                        -> SettledSessions(INTERVIEW_PREP_AVAILABLE)]
    /\ tasks = <<>>
    /\ received = 0
    /\ tool_calls = 0
    /\ PRE_ANALYZED_ANSWERS \in OnePhotoAnalyzed
    /\ electrician_sessions = EmptyDict
    /\ fitter_sessions = EmptyDict
    /\ chosen_agent = "electrician_skill_assessor"
    /\ QuizIdle
    /\ TurnIdle
    /\ VerdictIdle

SpecTwoUsers == TwoUsersInit /\ [][WhatsAppNext]_vars

\* the quiz the tools of an assessor read and write for the user phone_number:
\* _QUIZ_SESSIONS[_get_session_key()] of the assessor's module
QuizOfUser(phone_number, runner, electrician, fitter) ==
    IF runner = "fitter_skill_assessor"
    THEN Get(fitter, fitter_get_session_key("default"), EmptyDict)
    ELSE Get(electrician, electrician_get_session_key("default"), EmptyDict)

\* the runner of a turn of phone_number has just executed a tool
ToolRanFor(phone_number) ==
    /\ tool_calls' = tool_calls + 1
    /\ caller' = phone_number

\* C11: a tool executed for one user leaves the quiz of every other user as it
\* was: its questions, current_question_index, score and results.
C11_UsersShareNoQuizState ==
    [][\A mine, other \in DOMAIN SESSIONS :
          (mine # other /\ ToolRanFor(mine))
              => QuizOfUser(other, SESSIONS[other].runner,
                            electrician_sessions', fitter_sessions')
                   = QuizOfUser(other, SESSIONS[other].runner,
                                electrician_sessions, fitter_sessions)]_vars

(***************************************************************************)
(* One turn whose agent runs can fail                                      *)
(***************************************************************************)
\* the user's earlier messages have been answered; one more is to come
RetryInit ==
    /\ op = "none"
    /\ ret = [text |-> "none"]
    /\ INTERVIEW_PREP_AVAILABLE \in BOOLEAN
    /\ senders = Froms \ {""}
    /\ caller = "none"
    /\ SESSIONS \in [{PhoneNumber(From) : From \in Froms \ {""}}
                        -> SettledSessions(INTERVIEW_PREP_AVAILABLE)]
    /\ tasks = <<>>
    /\ received = MaxMessages - 1
    /\ tool_calls = 0
    /\ PRE_ANALYZED_ANSWERS \in OnePhotoAnalyzed
    /\ electrician_sessions = EmptyDict
    /\ fitter_sessions = EmptyDict
    /\ chosen_agent = "electrician_skill_assessor"
    /\ QuizIdle
    /\ TurnIdle
    /\ VerdictIdle

RetryNext ==
    \/ TwilioWebhook
    \/ StartTask
    \/ RunnerCallsElectricianTool
    \/ RunnerCallsFitterTool
    \/ RunnerRaises
    \/ RunnerFinalResponse

SpecRetry == RetryInit /\ [][RetryNext]_vars

(***************************************************************************)
(* Claims about failed agent runs (checked under SpecRetry)                *)
(***************************************************************************)
\* the step in which a turn gives up after a run of its agent raised
TurnFailed == op' = "run_async_raised" /\ ret'.returned

\* C12: when a turn fails after its tools changed the quiz, the quiz state
\* after the turn equals the quiz state the turn started from.
C12_FailedTurnRestoresQuizState ==
    [][TurnFailed
          => \A i \in 1..Len(tasks) :
                (tasks[i].pc = "run_async" /\ tasks[i].phone_number = caller')
                    => /\ electrician_sessions' = tasks[i].before.electrician
                       /\ fitter_sessions' = tasks[i].before.fitter]_vars

\* every run of the turn raised "503 overloaded"
AllOverloaded(errors) ==
    \A k \in 1..Len(errors) : errors[k] = <<"503", "overloaded">>

StrictlyIncreasing(seq) == \A k \in 1..(Len(seq) - 1) : seq[k] < seq[k + 1]

\* C13: a turn all of whose agent runs raise "503 overloaded" gives up only
\* after three retries, made after strictly increasing pauses, and then sends
\* the "AI service is busy" message.
C13_OverloadedRetriedThenBusy ==
    [][(TurnFailed /\ AllOverloaded(ret'.errors))
          => /\ Len(ret'.errors) = 1 + 3
             /\ Len(ret'.slept) = 3
             /\ StrictlyIncreasing(ret'.slept)
             /\ ret'.sent[1] = "ai_service_busy"]_vars

C13_Witness ==
    /\ op = "run_async_raised"
    /\ ret.returned
    /\ AllOverloaded(ret.errors)
    /\ Len(ret.slept) = 3

\* C14: a failure that is not classified transient ends the turn: no further
\* attempt follows it, also when it happens on a retry.
C14_NonTransientNeverRetried ==
    [][(/\ op' = "run_async_raised"
        /\ ~should_retry_error(ret'.errors[Len(ret'.errors)]))
          => ret'.returned]_vars

\* the turn has replied with the final text of the skill assessor
SkillReplied == op = "process_agent_and_reply" /\ "final" \in DOMAIN ret

\* the final response refers to an image
RefersToImage(final) ==
    \/ final.media_payload
    \/ Contains(final.response_text, <<MarkdownImage>>)
    \/ Contains(final.response_text, <<ImagePathLine>>)

\* C15: when the image of a final response cannot be mapped to a public URL,
\* the turn replies with a text message that holds the model's words and the
\* note "(Image unavailable)".
C15_UnresolvedMediaSendsTextWithNote ==
    (SkillReplied /\ RefersToImage(ret.final) /\ ~ret.final.img_url)
        => /\ ret.sent[1].method = "send_whatsapp"
           /\ Contains(ret.final.response_text, <<Words>>)
                  => Contains(ret.sent[1].body, <<Words>>)
           /\ Contains(ret.sent[1].body, <<"(Image unavailable)">>)

(***************************************************************************)
(* Candidate session and final verdict (src/src/assessment_system.py,      *)
(* src/src/tools/assessment_tools.py; _calculate_final_verdict is          *)
(* duplicated in src/app.py).  A skill name is a sequence of letters, so   *)
(* that lower() and the substring tests are computed.  The timestamps the  *)
(* tools store in the session are read by nothing modelled and left out.   *)
(***************************************************************************)
MaxHistory == 2         \* most completed assessments explored
MaxInteractions == 2    \* most role updates explored

\* str.lower
lower(name) ==
    [k \in 1..Len(name) |->
        CASE name[k] = "S" -> "s"
          [] name[k] = "Q" -> "q"
          [] name[k] = "R" -> "r"
          [] name[k] = "T" -> "t"
          [] OTHER -> name[k]]

StitchingQuality == <<"S", "q">>
reading == <<"r">>

\* the skill names, scores and grades the model passes to complete_skill_assessment
SkillNames == { <<"s">>, <<"R", "t">> }
Scores == {4, 8}
Grades == {"A", "C"}

\* the roles the model passes to update_candidate_role
Roles == {"", "Tailor", "Plumber"}

\* passing_thresholds of one skill: any of the three keys may be configured
Thresholds(quality, grade, accuracy) ==
    [k \in (IF quality THEN {"min_quality_rating"} ELSE {})
             \cup (IF grade THEN {"required_professional_grade"} ELSE {})
             \cup (IF accuracy THEN {"min_accuracy"} ELSE {})
        |-> IF k = "required_professional_grade" THEN <<"A">> ELSE 6]

\* competency_map.json with the role Tailor
CompetencyMap(required_skills, stitching_thresholds) ==
    [roles |->
        [role \in {"Tailor"} |->
            [required_skills |-> required_skills,
             passing_thresholds |->
                 [skill \in {StitchingQuality, reading} |->
                     IF skill = StitchingQuality THEN stitching_thresholds
                     ELSE Thresholds(FALSE, FALSE, TRUE)]]]]

\* current_assessment = None
NoCurrentAssessment == <<"None">>

\* create_initial_candidate_state
create_initial_candidate_state(role) ==
    [applied_role |-> IF role = "" THEN "unknown" ELSE role,
     role_identified |-> role # "",
     assessment_history |-> <<>>,
     skill_levels |-> EmptyDict,
     current_assessment |-> NoCurrentAssessment,
     interaction_history |-> <<>>,
     assessment_status |-> "started",
     total_assessments |-> 0,
     completed_skills |-> <<>>,
     pending_skills |-> <<>>]

InSeq(x, seq) == \E k \in 1..Len(seq) : seq[k] = x

\* complete_skill_assessment: the session state it leaves
complete_skill_assessment(cs, skill_name, score, grade) ==
    LET current_history ==
            Append(cs.assessment_history,
                   [skill |-> skill_name, score |-> score, grade |-> grade])
    IN [cs EXCEPT !.assessment_history = current_history,
                  !.skill_levels = Put(@, skill_name, score),
                  !.completed_skills =
                      IF InSeq(skill_name, @) THEN @ ELSE Append(@, skill_name),
                  !.pending_skills = SelectSeq(@, LAMBDA pending : pending # skill_name),
                  !.total_assessments = Len(current_history),
                  !.current_assessment = NoCurrentAssessment,
                  !.assessment_status = "completed"]

mut_start_skill_assessment(cs, skill_name) ==
    [cs EXCEPT !.current_assessment = skill_name,
               !.pending_skills =
                   IF InSeq(skill_name, @) THEN @ ELSE Append(@, skill_name)]

\* start_skill_assessment: the session state it leaves
start_skill_assessment(cs, skill_name) ==
    [cs EXCEPT !.current_assessment = skill_name,
               !.assessment_status = "in_progress",
               !.pending_skills =
                   IF InSeq(skill_name, @) THEN @ ELSE Append(@, skill_name)]

\* update_candidate_role: the session state it leaves
update_candidate_role(cs, role) ==
    [cs EXCEPT !.applied_role = role,
               !.role_identified = TRUE,
               !.interaction_history =
                   Append(@, [type |-> "role_identification", content |-> role,
                              previous_role |-> role])]

\* the first entry of assessment_history whose skill matches, or None
NoAssessment == [skill |-> <<"None">>]

skill_assessment(skill, assessment_history) ==
    LET matching == {k \in 1..Len(assessment_history) :
                        LET assessment_skill == lower(assessment_history[k].skill)
                        IN \/ Contains(assessment_skill, lower(skill))
                           \/ Contains(lower(skill), assessment_skill)}
    IN IF matching = {} THEN NoAssessment
       ELSE assessment_history[CHOOSE k \in matching : \A m \in matching : k <= m]

mut_skill_pass(assessment, skill_thresholds) ==
    /\ "min_quality_rating" \in DOMAIN skill_thresholds
          => ~(assessment.score < skill_thresholds["min_quality_rating"])
    /\ "min_accuracy" \in DOMAIN skill_thresholds
          => ~(assessment.score < skill_thresholds["min_accuracy"])

\* the threshold checks of one skill
skill_pass(assessment, skill_thresholds) ==
    /\ "min_quality_rating" \in DOMAIN skill_thresholds
          => ~(assessment.score < skill_thresholds["min_quality_rating"])
    /\ "required_professional_grade" \in DOMAIN skill_thresholds
          => InSeq(assessment.grade, skill_thresholds["required_professional_grade"])
    /\ "min_accuracy" \in DOMAIN skill_thresholds
          => ~(assessment.score < skill_thresholds["min_accuracy"])

\* results[skill]
skill_result(skill, assessment_history, thresholds) ==
    LET assessment == skill_assessment(skill, assessment_history)
    IN IF assessment = NoAssessment
       THEN [status |-> "MISSING", pass |-> FALSE]
       ELSE [status |-> "COMPLETED",
             pass |-> skill_pass(assessment, Get(thresholds, skill, EmptyDict)),
             score |-> assessment.score,
             grade |-> assessment.grade]

RECURSIVE mut_overall_pass(_, _, _)
mut_overall_pass(required_skills, assessment_history, thresholds) ==
    IF required_skills = <<>> THEN TRUE
    ELSE LET result == skill_result(Head(required_skills), assessment_history, thresholds)
         IN (result.status = "MISSING" \/ result.pass)
               /\ mut_overall_pass(Tail(required_skills), assessment_history, thresholds)

\* overall_pass after the loop over required_skills
RECURSIVE overall_pass(_, _, _)
overall_pass(required_skills, assessment_history, thresholds) ==
    IF required_skills = <<>> THEN TRUE
    ELSE skill_result(Head(required_skills), assessment_history, thresholds).pass
            /\ overall_pass(Tail(required_skills), assessment_history, thresholds)

mut_role_known(role, roles) == role # ""

\* not (not role or role not in competency_map["roles"])
role_known(role, roles) == role # "" /\ role \in DOMAIN roles

\* _calculate_final_verdict; now is what datetime.now().isoformat() returns
calculate_final_verdict(cs, cmap, now) ==
    LET role == cs.applied_role
        assessment_history == cs.assessment_history
    IN IF ~role_known(role, cmap.roles)
       THEN [decision |-> "INCOMPLETE", reason |-> "Unknown role or missing assessments"]
       ELSE IF role \notin DOMAIN cmap.roles
       THEN [decision |-> "ERROR", reason |-> "KeyError"]
       ELSE LET required_skills == cmap.roles[role].required_skills
                thresholds == cmap.roles[role].passing_thresholds
                passed == overall_pass(required_skills, assessment_history, thresholds)
            IN [decision |-> IF passed THEN "PASS" ELSE "FAIL",
                skill_results |->
                    [skill \in {required_skills[k] : k \in 1..Len(required_skills)} |->
                        skill_result(skill, assessment_history, thresholds)],
                overall_pass |-> passed,
                timestamp |-> now]

\* the values datetime.now().isoformat() takes
Timestamps == {"2025-01-01T00:00:00", "2025-01-01T00:00:01"}

VerdictFrame == UNCHANGED <<competency_map, notVerdictVars>>

\* the model calls the tool complete_skill_assessment
CompleteSkillAssessment ==
    /\ Len(candidate_state.assessment_history) < MaxHistory
    /\ \E skill_name \in SkillNames, score \in Scores, grade \in Grades :
          /\ candidate_state' = complete_skill_assessment(candidate_state, skill_name,
                                                          score, grade)
          /\ ret' = [text |-> "Successfully completed", skill_name |-> skill_name]
    /\ op' = "complete_skill_assessment"
    /\ VerdictFrame

\* the model calls the tool update_candidate_role
UpdateCandidateRole ==
    /\ Len(candidate_state.interaction_history) < MaxInteractions
    /\ \E role \in Roles :
          /\ candidate_state' = update_candidate_role(candidate_state, role)
          /\ ret' = [text |-> "Successfully updated", role |-> role]
    /\ op' = "update_candidate_role"
    /\ VerdictFrame

\* the model calls the tool start_skill_assessment
StartSkillAssessment ==
    /\ \E skill_name \in SkillNames :
          /\ candidate_state' = start_skill_assessment(candidate_state, skill_name)
          /\ ret' = [text |-> "Started", skill_name |-> skill_name]
    /\ op' = "start_skill_assessment"
    /\ VerdictFrame

\* get_assessment_summary of the candidate's session
GetAssessmentSummary ==
    /\ \E now \in Timestamps :
          ret' = [role |-> candidate_state.applied_role,
                  status |-> candidate_state.assessment_status,
                  assessment_results |-> candidate_state.assessment_history,
                  skill_levels |-> candidate_state.skill_levels,
                  final_verdict |->
                      calculate_final_verdict(candidate_state, competency_map, now),
                  total_interactions |-> Len(candidate_state.interaction_history)]
    /\ op' = "get_assessment_summary"
    /\ UNCHANGED candidate_state
    /\ VerdictFrame

\* a session create_candidate_session made, with or without a role, and a
\* competency map that requires one or two skills of a Tailor
VerdictInit ==
    /\ op = "none"
    /\ ret = [text |-> "none"]
    /\ \E role \in {"", "Tailor"} :
          candidate_state = create_initial_candidate_state(role)
    /\ \E required_skills \in {<<StitchingQuality>>, <<StitchingQuality, reading>>},
          quality \in BOOLEAN, grade \in BOOLEAN, accuracy \in BOOLEAN :
          competency_map = CompetencyMap(required_skills,
                                         Thresholds(quality, grade, accuracy))
    /\ A2AIdle
    /\ QuizIdle
    /\ RoundsIdle
    /\ TurnIdle
    /\ WhatsAppIdle

VerdictNext ==
    \/ CompleteSkillAssessment
    \/ UpdateCandidateRole
    \/ GetAssessmentSummary

SpecVerdict == VerdictInit /\ [][VerdictNext]_vars

(***************************************************************************)
(* The candidate session under its three state-changing tools              *)
(***************************************************************************)
CandidateInit ==
    /\ op = "none"
    /\ ret = [text |-> "none"]
    /\ \E role \in {"", "Tailor"} :
          candidate_state = create_initial_candidate_state(role)
    /\ competency_map = EmptyDict
    /\ A2AIdle
    /\ QuizIdle
    /\ RoundsIdle
    /\ TurnIdle
    /\ WhatsAppIdle

CandidateNext ==
    \/ StartSkillAssessment
    \/ CompleteSkillAssessment
    \/ UpdateCandidateRole

SpecCandidate == CandidateInit /\ [][CandidateNext]_vars

(***************************************************************************)
(* A2A contexts of the Flask server (src/src/server/a2a_server.py).  Each  *)
(* message/send request is handled in a thread of its own by               *)
(* asyncio.run(_handle_message_send); the threads share a2a_contexts and   *)
(* interleave between statements.  JobAssessmentAgentExecutor              *)
(* ._get_or_create_session has the same test, creation and store.          *)
(***************************************************************************)
MaxRequests == 3    \* most message/send requests explored

ContextIds == {"ctx-1", "ctx-2"}

A2AFrame == UNCHANGED notA2AVars

\* a2a_rpc: a message/send request with a contextId arrives
ReceiveMessageSend ==
    /\ Len(candidate_sessions) + Len(a2a_requests) < MaxRequests
    /\ \E context_id \in ContextIds :
          a2a_requests' = Append(a2a_requests,
                                 [context_id |-> context_id, pc |-> "test",
                                  session_id |-> 0])
    /\ op' = "a2a_rpc"
    /\ ret' = [text |-> ""]
    /\ UNCHANGED <<a2a_contexts, candidate_sessions>>
    /\ A2AFrame

\* if context_id not in self.a2a_contexts
TestContext ==
    /\ \E i \in 1..Len(a2a_requests) :
          /\ a2a_requests[i].pc = "test"
          /\ a2a_requests' =
                [a2a_requests EXCEPT ![i].pc =
                    IF a2a_requests[i].context_id \in DOMAIN a2a_contexts
                    THEN "process" ELSE "create"]
    /\ op' = "context_id not in a2a_contexts"
    /\ ret' = [text |-> ""]
    /\ UNCHANGED <<a2a_contexts, candidate_sessions>>
    /\ A2AFrame

\* session_id = await create_candidate_session(candidate_name)
CreateCandidateSession ==
    /\ \E i \in 1..Len(a2a_requests) :
          /\ a2a_requests[i].pc = "create"
          /\ candidate_sessions' = Append(candidate_sessions, a2a_requests[i].context_id)
          /\ a2a_requests' = [a2a_requests EXCEPT ![i].pc = "store",
                                                  ![i].session_id = Len(candidate_sessions')]
    /\ op' = "create_candidate_session"
    /\ ret' = [text |-> ""]
    /\ UNCHANGED a2a_contexts
    /\ A2AFrame

\* self.a2a_contexts[context_id] = {...}
StoreContext ==
    /\ \E i \in 1..Len(a2a_requests) :
          /\ a2a_requests[i].pc = "store"
          /\ a2a_contexts' = Put(a2a_contexts, a2a_requests[i].context_id,
                                  [session_id |-> a2a_requests[i].session_id])
          /\ a2a_requests' = [a2a_requests EXCEPT ![i].pc = "process"]
    /\ op' = "a2a_contexts[context_id] = session"
    /\ ret' = [text |-> ""]
    /\ UNCHANGED candidate_sessions
    /\ A2AFrame

\* session_info = self.a2a_contexts[context_id]; the message is processed in
\* that session and the request returns
ProcessCandidateInteraction ==
    /\ \E i \in 1..Len(a2a_requests) :
          /\ a2a_requests[i].pc = "process"
          /\ ret' = [context_id |-> a2a_requests[i].context_id,
                     session_id |-> a2a_contexts[a2a_requests[i].context_id].session_id]
          /\ a2a_requests' = Remove(a2a_requests, i)
    /\ op' = "process_candidate_interaction"
    /\ UNCHANGED <<a2a_contexts, candidate_sessions>>
    /\ A2AFrame

A2AInit ==
    /\ op = "none"
    /\ ret = [text |-> "none"]
    /\ A2AIdle
    /\ candidate_state = EmptyDict
    /\ competency_map = EmptyDict
    /\ QuizIdle
    /\ RoundsIdle
    /\ TurnIdle
    /\ WhatsAppIdle

A2ANext ==
    \/ ReceiveMessageSend
    \/ TestContext
    \/ CreateCandidateSession
    \/ StoreContext
    \/ ProcessCandidateInteraction

SpecA2A == A2AInit /\ [][A2ANext]_vars

(***************************************************************************)
(* Claims about the final verdict (checked under SpecVerdict)              *)
(***************************************************************************)
\* a summary has just been computed for a candidate whose role is in the map
VerdictForKnownRole ==
    /\ op = "get_assessment_summary"
    /\ candidate_state.applied_role \in DOMAIN competency_map.roles

\* C16: for a role of the competency map, overall_pass is true exactly when
\* every entry of skill_results has pass = true, and the decision is PASS
\* exactly when overall_pass is true, FAIL otherwise.
C16_OverallPassIffAllSkillsPass ==
    VerdictForKnownRole
        => LET verdict == ret.final_verdict
           IN /\ verdict.overall_pass
                    <=> \A skill \in DOMAIN verdict.skill_results :
                           verdict.skill_results[skill].pass
              /\ verdict.decision = (IF verdict.overall_pass THEN "PASS" ELSE "FAIL")

C16_Witness ==
    /\ VerdictForKnownRole
    /\ ~ret.final_verdict.overall_pass
    /\ \E skill \in DOMAIN ret.final_verdict.skill_results :
          ret.final_verdict.skill_results[skill].status = "MISSING"
    /\ \E skill \in DOMAIN ret.final_verdict.skill_results :
          ret.final_verdict.skill_results[skill].pass

\* the thresholds configured for skill under the candidate's role
ConfiguredThresholds(skill) ==
    Get(competency_map.roles[candidate_state.applied_role].passing_thresholds,
        skill, EmptyDict)

\* C17: a required skill with a matching entry passes only if its score is at
\* least min_quality_rating, its grade is among required_professional_grade
\* and its score is at least min_accuracy, for each of these that is
\* configured.
C17_PassNeedsEveryThreshold ==
    VerdictForKnownRole
        => \A skill \in DOMAIN ret.final_verdict.skill_results :
              LET result == ret.final_verdict.skill_results[skill]
                  configured == ConfiguredThresholds(skill)
              IN (result.status = "COMPLETED" /\ result.pass)
                    => /\ "min_quality_rating" \in DOMAIN configured
                             => result.score >= configured["min_quality_rating"]
                       /\ "required_professional_grade" \in DOMAIN configured
                             => InSeq(result.grade,
                                      configured["required_professional_grade"])
                       /\ "min_accuracy" \in DOMAIN configured
                             => result.score >= configured["min_accuracy"]

C17_Witness ==
    /\ VerdictForKnownRole
    /\ \E skill \in DOMAIN ret.final_verdict.skill_results :
          LET result == ret.final_verdict.skill_results[skill]
              configured == ConfiguredThresholds(skill)
          IN /\ result.status = "COMPLETED"
             /\ DOMAIN configured = {"min_quality_rating", "required_professional_grade"}
             /\ result.score >= configured["min_quality_rating"]
             /\ ~InSeq(result.grade, configured["required_professional_grade"])
             /\ ~result.pass

\* the entries of the history whose skill name contains the required skill's
\* name or is contained in it, case ignored
Matching(skill, assessment_history) ==
    {k \in 1..Len(assessment_history) :
        \/ Contains(lower(assessment_history[k].skill), lower(skill))
        \/ Contains(lower(skill), lower(assessment_history[k].skill))}

\* C18: the result of a required skill is computed from the matching entry
\* that was appended last.
C18_LastMatchingEntryDecides ==
    VerdictForKnownRole
        => \A skill \in DOMAIN ret.final_verdict.skill_results :
              LET matching == Matching(skill, candidate_state.assessment_history)
                  last == CHOOSE k \in matching : \A m \in matching : m <= k
                  result == ret.final_verdict.skill_results[skill]
              IN matching # {}
                    => /\ result.score = candidate_state.assessment_history[last].score
                       /\ result.grade = candidate_state.assessment_history[last].grade

\* C19: the decision is INCOMPLETE exactly when applied_role is empty,
\* "unknown" or not a role of the competency map; for a role of the map a
\* required skill with no matching entry is reported MISSING with pass = false.
C19_IncompleteIffRoleUnknown ==
    op = "get_assessment_summary"
        => LET role == candidate_state.applied_role
               verdict == ret.final_verdict
           IN /\ verdict.decision = "INCOMPLETE"
                    <=> \/ role = ""
                        \/ role = "unknown"
                        \/ role \notin DOMAIN competency_map.roles
              /\ role \in DOMAIN competency_map.roles
                    => \A k \in 1..Len(competency_map.roles[role].required_skills) :
                          LET skill == competency_map.roles[role].required_skills[k]
                          IN Matching(skill, candidate_state.assessment_history) = {}
                                => verdict.skill_results[skill]
                                      = [status |-> "MISSING", pass |-> FALSE]

C19_Witness ==
    /\ VerdictForKnownRole
    /\ candidate_state.assessment_history # <<>>
    /\ \E skill \in DOMAIN ret.final_verdict.skill_results :
          /\ Matching(skill, candidate_state.assessment_history) = {}
          /\ ret.final_verdict.skill_results[skill].status = "MISSING"

\* C20: computing the verdict leaves the session state and the competency map
\* as they were, and a second computation from the same state and map
\* returns a verdict identical to the first.
C20_VerdictIsPure ==
    [][op' = "get_assessment_summary"
          => /\ candidate_state' = candidate_state
             /\ competency_map' = competency_map
             /\ op = "get_assessment_summary"
                   => ret'.final_verdict = ret.final_verdict]_vars

(***************************************************************************)
(* Claims about the candidate session (checked under SpecCandidate)        *)
(***************************************************************************)
\* C21: current_assessment is set exactly when assessment_status is
\* "in_progress", after any sequence of the three tools.
C21_CurrentIffInProgress ==
    (candidate_state.current_assessment # NoCurrentAssessment)
        <=> (candidate_state.assessment_status = "in_progress")

C21_Witness ==
    /\ op = "start_skill_assessment"
    /\ candidate_state.current_assessment # NoCurrentAssessment
    /\ candidate_state.assessment_history # <<>>

\* C22: start_skill_assessment called while an assessment is in flight is
\* refused and leaves current_assessment, assessment_status and
\* pending_skills as they were.
C22_StartWhileInFlightRefused ==
    [][(/\ op' = "start_skill_assessment"
        /\ candidate_state.current_assessment # NoCurrentAssessment)
          => /\ ret'.text # "Started"
             /\ candidate_state'.current_assessment = candidate_state.current_assessment
             /\ candidate_state'.assessment_status = candidate_state.assessment_status
             /\ candidate_state'.pending_skills = candidate_state.pending_skills]_vars

\* C23: complete_skill_assessment called with no assessment in flight, or for
\* a skill other than the one in flight, is refused: it appends nothing to
\* assessment_history and changes no skill level and no session metadata.
C23_CompleteWithoutStartRefused ==
    [][(/\ op' = "complete_skill_assessment"
        /\ \/ candidate_state.current_assessment = NoCurrentAssessment
           \/ candidate_state.current_assessment # ret'.skill_name)
          => /\ ret'.text # "Successfully completed"
             /\ candidate_state'.assessment_history = candidate_state.assessment_history
             /\ candidate_state'.skill_levels = candidate_state.skill_levels
             /\ candidate_state'.completed_skills = candidate_state.completed_skills
             /\ candidate_state'.pending_skills = candidate_state.pending_skills
             /\ candidate_state'.total_assessments = candidate_state.total_assessments]_vars

\* the history of cs holds exactly one entry for each completed skill and
\* total_assessments is its length
OneEntryPerCompletedSkill(cs) ==
    /\ \A k \in 1..Len(cs.assessment_history) :
          InSeq(cs.assessment_history[k].skill, cs.completed_skills)
    /\ \A c \in 1..Len(cs.completed_skills) :
          Cardinality({k \in 1..Len(cs.assessment_history) :
                          cs.assessment_history[k].skill = cs.completed_skills[c]}) = 1
    /\ cs.total_assessments = Len(cs.assessment_history)

\* C24: entries of assessment_history are never removed or changed, the
\* history holds exactly one entry per skill of completed_skills, and
\* total_assessments is the length of the history.
C24_HistoryAppendOnlyOnePerSkill ==
    [][/\ IsPrefix(candidate_state.assessment_history,
                   candidate_state'.assessment_history)
       /\ OneEntryPerCompletedSkill(candidate_state')]_vars

\* C25: update_candidate_role applied a second time with the same role leaves
\* the candidate state as the first application left it.
C25_UpdateRoleIdempotent ==
    [][(/\ op = "update_candidate_role"
        /\ op' = "update_candidate_role"
        /\ ret'.role = ret.role)
          => candidate_state' = candidate_state]_vars

(***************************************************************************)
(* Further claims about the label-reading quiz (checked under SpecQuiz)    *)
(***************************************************************************)
\* C26: in every reachable quiz state 0 <= current_question <= len(questions),
\* also for a quiz started with no questions.
C26_CursorWithinQuestions ==
    "label_reading_quiz" \in DOMAIN state
        => /\ 0 <= Quiz.current_question
           /\ Quiz.current_question <= Len(Quiz.questions)

\* the cursor of the quiz, 0 when there is none
Cursor(st) ==
    Get(Get(st, "label_reading_quiz", EmptyDict), "current_question", 0)

\* C27: no question is skipped: the cursor never advances past two questions
\* without an answer_quiz_question call in between, and answer_quiz_question
\* itself leaves the cursor and the score as they were.
C27_NoQuestionSkipped ==
    [][/\ (/\ op' = "update_quiz_score_and_continue"
           /\ Cursor(state') # Cursor(state)
           /\ Cursor(state') <= Len(Quiz.questions))
            => op # "update_quiz_score_and_continue"
       /\ op' = "answer_quiz_question" => state' = state]_vars

(***************************************************************************)
(* Claims about A2A contexts (checked under SpecA2A)                       *)
(***************************************************************************)
\* C28: at most one candidate session is ever created for a context id, also
\* when two first messages of the context are handled at the same time.
C28_OneSessionPerContext ==
    \A context_id \in ContextIds :
        Cardinality({k \in 1..Len(candidate_sessions) :
                        candidate_sessions[k] = context_id}) <= 1

(***************************************************************************)
(* The WhatsApp selection menus                                            *)
(***************************************************************************)
\* the sessions of a user who is at one of the three menus: the session a
\* first message creates, the same after '1' or '2' at the role menu, and
\* the same after '2' at the activity menu
SelectionSessions(available) ==
    LET created == [Selected(SessionEntry("interview_prep", "Electrician", available))
                       EXCEPT !.has_state = TRUE]
        role_chosen(selected_role) ==
            SetState(SetState(SetState(created,
                "role_selected", TRUE),
                "selected_role", selected_role),
                "new_user_session", TRUE)
        assessment_chosen(selected_role) ==
            SetState(SetState(SetState(role_chosen(selected_role),
                "activity_selected", TRUE),
                "selected_activity", "assessment"),
                "waiting_for_assessment_type", TRUE)
    IN {created}
         \cup {role_chosen(selected_role) : selected_role \in {"Electrician", "Fitter"}}
         \cup {assessment_chosen(selected_role) : selected_role \in {"Electrician", "Fitter"}}

\* one user at a menu, one more message to come; the folder holds one photo
SelectionInit ==
    /\ op = "none"
    /\ ret = [text |-> "none"]
    /\ INTERVIEW_PREP_AVAILABLE \in BOOLEAN
    /\ senders = Froms
    /\ caller = "none"
    /\ \E session \in SelectionSessions(INTERVIEW_PREP_AVAILABLE) :
          SESSIONS = Put(EmptyDict, "+911", session)
    /\ tasks = <<>>
    /\ received = MaxMessages - 1
    /\ tool_calls = 0
    /\ PRE_ANALYZED_ANSWERS \in OnePhotoAnalyzed
    /\ electrician_sessions = EmptyDict
    /\ fitter_sessions = EmptyDict
    /\ chosen_agent = "electrician_skill_assessor"
    /\ QuizIdle
    /\ TurnIdle
    /\ VerdictIdle

SpecSelection == SelectionInit /\ [][WhatsAppNext]_vars

(***************************************************************************)
(* Claims about the selection menus (checked under SpecSelection)          *)
(***************************************************************************)
\* the menu an Interview Prep session is at, "none" when it is at no menu
MenuOf(session) ==
    LET session_state == StateOf(session)
    IN IF ~(session.agent_type = "interview_prep" /\ session.agent_selected) THEN "none"
       ELSE IF ~Get(session_state, "role_selected", FALSE) THEN "role"
       ELSE IF ~Get(session_state, "activity_selected", FALSE) THEN "activity"
       ELSE IF Get(session_state, "waiting_for_assessment_type", FALSE) THEN "assessment_type"
       ELSE "none"

\* the re-prompt of a menu
RetryOf(menu) ==
    CASE menu = "role" -> "role_retry"
      [] menu = "activity" -> "activity_retry"
      [] menu = "assessment_type" -> "assessment_type_retry"

\* the coroutines the webhook scheduled and that have not started
NotStarted(ts) == {i \in 1..Len(ts) : ts[i].pc = "scheduled"}

\* a turn starts; it belongs to phone_number, whose session is at a menu, and
\* its text, lower-cased and stripped, is none of the words in accepted
MenuTurn(phone_number, accepted) ==
    /\ op' = "process_agent_and_reply"
    /\ Cardinality(NotStarted(tasks')) < Cardinality(NotStarted(tasks))
    /\ phone_number \in DOMAIN SESSIONS
    /\ MenuOf(SESSIONS[phone_number]) # "none"
    /\ \A i \in 1..Len(tasks) :
          tasks[i].pc = "scheduled"
             => /\ tasks[i].phone_number = phone_number
                /\ IncomingLower(tasks[i].incoming_text) \notin accepted

\* the turn sent the re-prompt of the menu and left the sessions as they were
RePrompted(phone_number) ==
    /\ ret'.sent = <<RetryOf(MenuOf(SESSIONS[phone_number]))>>
    /\ SESSIONS' = SESSIONS

ElectricianKey == electrician_get_session_key("default")

\* the session is in a photo round whose last question is the current one
AtLastPhotoQuestion(sessions) ==
    /\ ElectricianKey \in DOMAIN sessions
    /\ {"questions", "current_question_index"} \subseteq DOMAIN sessions[ElectricianKey]
    /\ LET quiz_state == sessions[ElectricianKey]
       IN /\ quiz_state.current_question_index = Len(quiz_state.questions) - 1
          /\ "image_path" \in DOMAIN quiz_state.questions[Len(quiz_state.questions)]

\* the session holds the photo results and a fresh knowledge round
KnowledgeRoundStarted(sessions) ==
    /\ ElectricianKey \in DOMAIN sessions
    /\ LET quiz_state == sessions[ElectricianKey]
       IN /\ "photo_assessment_results" \in DOMAIN quiz_state
          /\ Get(quiz_state, "assessment_type", "None") = "knowledge"
          /\ "questions" \in DOMAIN quiz_state
          /\ Len(quiz_state.questions) = KnowledgeRoundLength
          /\ Get(quiz_state, "current_question_index", -1) = 0

\* C30: the score_photo_answer call that scores the last photo question
\* stores the photo results and starts the knowledge round in the same call:
\* afterwards the session has assessment_type 'knowledge', 5 questions and
\* current_question_index 0, so that the next score_knowledge_answer is
\* accepted.
C30_LastPhotoStartsKnowledgeRound ==
    [][(op' = "score_photo_answer" /\ AtLastPhotoQuestion(electrician_sessions))
          => KnowledgeRoundStarted(electrician_sessions')]_vars

(***************************************************************************)
(* Claims about the order of the fitter rounds (checked under SpecRounds)  *)
(***************************************************************************)
FitterKey == fitter_get_session_key("default")

\* the type of the round the fitter session is in, "None" without one
FitterRound(sessions) ==
    IF FitterKey \in DOMAIN sessions
    THEN Get(sessions[FitterKey], "assessment_type", "None") ELSE "None"

\* every scenario question of the session has been scored
ScenariosScored(sessions) ==
    /\ FitterKey \in DOMAIN sessions
    /\ "scenario_results" \in DOMAIN sessions[FitterKey]
    /\ Len(sessions[FitterKey].scenario_results.scenario_results) = ScenarioPick

\* C31: the fitter rounds run in the order scenario, knowledge:
\* score_knowledge_answer is rejected with the state unchanged until every
\* scenario question has been scored, score_scenario_answer is rejected once
\* the knowledge round has begun, and the final summary's total is the
\* scenario score plus the knowledge score, after which the session entry is
\* deleted.
C31_ScenarioThenKnowledge ==
    [][chosen_agent = "fitter_skill_assessor"
          => /\ (op' = "score_knowledge_answer" /\ ~ScenariosScored(fitter_sessions))
                   => /\ ret'.text = "Knowledge assessment not started. Please start the assessment first."
                      /\ fitter_sessions' = fitter_sessions
             /\ (op' = "score_scenario_answer" /\ FitterRound(fitter_sessions) = "knowledge")
                   => /\ ret'.text = "Scenario assessment not started. Please start the assessment first."
                      /\ fitter_sessions' = fitter_sessions
             /\ (op' = "score_knowledge_answer" /\ ret'.text = "Assessment Complete!")
                   => /\ ret'.overall_total = ret'.scenario_score + ret'.knowledge_score
                      /\ FitterKey \notin DOMAIN fitter_sessions']_vars

(***************************************************************************)
(* retry_with_backoff (src/electrician_skill_agent/whatsapp.py)            *)
(***************************************************************************)
MaxRetriesExplored == 3     \* largest max_retries explored

\* what one call of func does: it returns, or raises one of Errors
FuncReturned == <<"ok">>

Min(a, b) == IF a <= b THEN a ELSE b

\* the arguments of a call
BackoffArguments ==
    [ max_retries : 0..MaxRetriesExplored,
      initial_delay : {1, 2},
      max_delay : {5, 30},
      backoff_factor : {2, 3},
      phone_number : {"None", "+911"} ]

\* the sleep of the loop body: retries sleep the current delay, and the first
\* retry tells the user
Slept(b) == IF b.attempt > 0 THEN Append(b.slept, b.delay) ELSE b.slept

Notified(b) ==
    IF b.attempt = 1 /\ b.phone_number # "None" THEN b.notified + 1 ELSE b.notified

BackoffFrame == UNCHANGED notBackoffVars

\* one pass of the loop in which func returns: the result is returned
AttemptReturns ==
    /\ backoff.status = "running"
    /\ backoff' = [backoff EXCEPT !.slept = Slept(backoff),
                                  !.notified = Notified(backoff),
                                  !.calls = @ + 1,
                                  !.status = "returned"]
    /\ op' = "retry_with_backoff"
    /\ ret' = [result |-> FuncReturned]
    /\ BackoffFrame

\* delay = min(delay * backoff_factor, max_delay)
next_delay(b) == Min(b.delay * b.backoff_factor, b.max_delay)

\* one pass of the loop in which func raises: the exception is raised again
\* when it is not retryable or no retry is left, else the next delay is
\* computed and the loop goes on
AttemptRaises ==
    /\ backoff.status = "running"
    /\ \E e \in Errors :
          LET is_retryable == should_retry_error(e)
              tried == [backoff EXCEPT !.slept = Slept(backoff),
                                       !.notified = Notified(backoff),
                                       !.calls = @ + 1,
                                       !.last_exception = e]
          IN IF ~is_retryable \/ backoff.attempt >= backoff.max_retries
             THEN /\ backoff' = [tried EXCEPT !.status = "raised"]
                  /\ ret' = Raised(e)
             ELSE /\ backoff' = [tried EXCEPT !.delay = next_delay(backoff),
                                              !.attempt = @ + 1]
                  /\ ret' = [retrying |-> e]
    /\ op' = "retry_with_backoff"
    /\ BackoffFrame

\* the call is entered: last_exception = None, delay = initial_delay
BackoffInit ==
    /\ op = "none"
    /\ ret = [text |-> "none"]
    /\ \E b \in BackoffArguments :
          backoff = [max_retries |-> b.max_retries, initial_delay |-> b.initial_delay,
                     max_delay |-> b.max_delay, backoff_factor |-> b.backoff_factor,
                     phone_number |-> b.phone_number, attempt |-> 0,
                     delay |-> b.initial_delay, slept |-> <<>>, calls |-> 0,
                     notified |-> 0, last_exception |-> <<>>, status |-> "running"]
    /\ ProgressIdle
    /\ a2a_contexts = EmptyDict
    /\ candidate_sessions = <<>>
    /\ a2a_requests = <<>>
    /\ candidate_state = EmptyDict
    /\ competency_map = EmptyDict
    /\ QuizIdle
    /\ RoundsIdle
    /\ TurnIdle
    /\ WhatsAppIdle

BackoffNext ==
    \/ AttemptReturns
    \/ AttemptRaises

SpecBackoff == BackoffInit /\ [][BackoffNext]_vars

(***************************************************************************)
(* Claims about retry_with_backoff (checked under SpecBackoff)             *)
(***************************************************************************)
\* C32: retry_with_backoff calls func at most max_retries + 1 times; the
\* delay slept before the first retry is initial_delay, each later delay is
\* the one before it multiplied by backoff_factor (held at max_delay), no
\* delay exceeds max_delay, and when all attempts have failed the exception
\* raised is the last one func raised.
C32_BackoffSchedule ==
    /\ backoff.calls <= backoff.max_retries + 1
    /\ Len(backoff.slept) >= 1 => backoff.slept[1] = backoff.initial_delay
    /\ \A k \in 2..Len(backoff.slept) :
          backoff.slept[k] =
             Min(backoff.slept[k - 1] * backoff.backoff_factor, backoff.max_delay)
    /\ \A k \in 1..Len(backoff.slept) : backoff.slept[k] <= backoff.max_delay
    /\ backoff.status = "raised" => ret = Raised(backoff.last_exception)

(***************************************************************************)
(* Claims about the menu words (checked under SpecSelection)               *)
(***************************************************************************)
\* a turn of phone_number starts whose text is one of the menu words
MenuWordTurn(phone_number) ==
    /\ op' = "process_agent_and_reply"
    /\ Cardinality(NotStarted(tasks')) < Cardinality(NotStarted(tasks))
    /\ phone_number \in DOMAIN SESSIONS
    /\ \A i \in 1..Len(tasks) :
          tasks[i].pc = "scheduled"
             => /\ tasks[i].phone_number = phone_number
                /\ IncomingLower(tasks[i].incoming_text) \in MenuCommands

\* C33: 'menu' ('switch', 'options', 'home', 'back') works at any time: in
\* every session state, the role-selection and activity-selection phases of
\* interview preparation included, it resets the session to the
\* service-selection menu (agent_selected = false) and sends the menu.
C33_MenuWordsWorkAnytime ==
    [][\A phone_number \in DOMAIN SESSIONS :
          MenuWordTurn(phone_number)
             => /\ SESSIONS'[phone_number].agent_type = "menu"
                /\ ~SESSIONS'[phone_number].agent_selected
                /\ ret'.sent \in {<<"selection_menu">>, <<"selection_prompt">>}]_vars

(***************************************************************************)
(* Claims about the assessor a role gets (checked under SpecSelection)     *)
(***************************************************************************)
\* a turn of phone_number starts
TurnStarts(phone_number) ==
    /\ op' = "process_agent_and_reply"
    /\ Cardinality(NotStarted(tasks')) < Cardinality(NotStarted(tasks))
    /\ phone_number \in DOMAIN SESSIONS
    /\ \A i \in 1..Len(tasks) :
          tasks[i].pc = "scheduled" => tasks[i].phone_number = phone_number

\* the role the user selected in this conversation, "None" when none was
SelectedRole(session) == Get(StateOf(session), "selected_role", "None")

\* C34: whenever a user who selected a role in this conversation enters
\* skill assessment, by any path, the session runs the assessor of that
\* role: the fitter assessor for Fitter and the electrician assessor
\* otherwise.
C34_AssessorOfSelectedRole ==
    [][\A phone_number \in DOMAIN SESSIONS :
          (/\ TurnStarts(phone_number)
           /\ SelectedRole(SESSIONS[phone_number]) # "None"
           /\ SESSIONS[phone_number].agent_type # "skill_assessment"
           /\ SESSIONS'[phone_number].agent_type = "skill_assessment")
             => SESSIONS'[phone_number].runner
                   = ChosenAgent(SelectedRole(SESSIONS[phone_number]))]_vars

(***************************************************************************)
(* Module progress of interview preparation                                *)
(* (src/interview-prep-agent/src/tools)                                    *)
(***************************************************************************)
MaxStatusCalls == 3     \* most db_set_module_status calls explored

ModuleIds == {"m1", "m2"}

\* the status argument as the model passes it
StatusArguments == {"pending", "in_progress", " Completed ", "done"}

\* (status or '').strip().lower()
StatusLower(status) ==
    CASE status = " Completed " -> "completed"
      [] OTHER -> status

\* a NULL column
NULL == 0

\* save_module_progress on the rows of the user: INSERT OR REPLACE writes all
\* columns of the row, and user_sessions follows the module in progress; a
\* failing connection or statement is rolled back
save_module_progress(db, module_id, status, now, db_ok) ==
    IF ~db_ok
    THEN [database |-> db, ret |-> [error |-> "database_error"]]
    ELSE LET row == Get(db.user_progress, module_id, [started_at |-> NULL])
             started_at == IF status = "in_progress"
                           THEN IF row.started_at # NULL THEN row.started_at ELSE now
                           ELSE NULL
             completed_at == IF status = "completed" THEN now ELSE NULL
             current_module ==
                 IF status = "in_progress" THEN module_id
                 ELSE IF status = "completed" /\ db.user_sessions = module_id THEN "NULL"
                 ELSE db.user_sessions
         IN [database |->
                [user_progress |-> Put(db.user_progress, module_id,
                                       [status |-> status, started_at |-> started_at,
                                        completed_at |-> completed_at]),
                 user_sessions |-> current_module],
             ret |-> [status |-> "ok", module_id |-> module_id, new_status |-> status,
                      saved_to_db |-> TRUE]]

\* db_set_module_status: the database first, then the in-memory entry
db_set_module_status(mem, db, module_id, status_argument, now, db_ok) ==
    LET status == StatusLower(status_argument)
    IN IF status \notin {"pending", "in_progress", "completed"}
       THEN [learning |-> mem, database |-> db, ret |-> [error |-> "invalid_status"]]
       ELSE LET saved == save_module_progress(db, module_id, status, now, db_ok)
                entry == Put(Get(mem.progress, module_id, EmptyDict), "status", status)
                stamped ==
                    CASE status = "in_progress" ->
                            IF "started_at" \in DOMAIN entry THEN entry
                            ELSE Put(entry, "started_at", now)
                      [] status = "completed" -> Put(entry, "completed_at", now)
                      [] status = "pending" -> Del(Del(entry, "started_at"), "completed_at")
                current_module ==
                    IF status = "in_progress" THEN module_id
                    ELSE IF mem.current_module = module_id THEN "None"
                    ELSE mem.current_module
            IN [learning |-> [progress |-> Put(mem.progress, module_id, stamped),
                              current_module |-> current_module],
                database |-> saved.database,
                ret |-> saved.ret]

\* the agent calls the tool
DbSetModuleStatus ==
    /\ status_calls < MaxStatusCalls
    /\ \E module_id \in ModuleIds, status \in StatusArguments, db_ok \in BOOLEAN :
          LET out == db_set_module_status(learning, database, module_id, status,
                                          status_calls + 1, db_ok)
          IN /\ learning' = out.learning
             /\ database' = out.database
             /\ ret' = out.ret
    /\ status_calls' = status_calls + 1
    /\ op' = "db_set_module_status"
    /\ UNCHANGED notProgressVars

\* a user without progress: the table has no row and the state no entry
ProgressInit ==
    /\ op = "none"
    /\ ret = [text |-> "none"]
    /\ learning = [progress |-> EmptyDict, current_module |-> "None"]
    /\ database = [user_progress |-> EmptyDict, user_sessions |-> "NULL"]
    /\ status_calls = 0
    /\ InteractionsIdle
    /\ backoff = NotCalled
    /\ a2a_contexts = EmptyDict
    /\ candidate_sessions = <<>>
    /\ a2a_requests = <<>>
    /\ candidate_state = EmptyDict
    /\ competency_map = EmptyDict
    /\ QuizIdle
    /\ RoundsIdle
    /\ TurnIdle
    /\ WhatsAppIdle

ProgressNext == DbSetModuleStatus

SpecProgress == ProgressInit /\ [][ProgressNext]_vars

(***************************************************************************)
(* Claims about module progress (checked under SpecProgress)               *)
(***************************************************************************)
\* the in-memory entry of the module and its row say the same
Agree(module_id) ==
    /\ module_id \in DOMAIN learning.progress <=> module_id \in DOMAIN database.user_progress
    /\ module_id \in DOMAIN learning.progress =>
          LET entry == learning.progress[module_id]
              row == database.user_progress[module_id]
          IN /\ entry.status = row.status
             /\ "started_at" \in DOMAIN entry <=> row.started_at # NULL
             /\ "completed_at" \in DOMAIN entry <=> row.completed_at # NULL

\* C35: after every sequence of db_set_module_status calls the in-memory
\* progress entry of each module and its database row agree on the status
\* and on whether started_at and completed_at are set.
C35_MemoryAgreesWithDatabase == \A module_id \in ModuleIds : Agree(module_id)

(***************************************************************************)
(* Turns of a candidate session (src/src/assessment_system.py,             *)
(* src/src/utils/session_utils.py)                                         *)
(***************************************************************************)
MaxTurns == 2       \* most turns of the session explored

\* a coroutine that entered process_candidate_interaction with its message
Entered(turn) == [turn |-> turn, pc |-> "get_for_query", updated_state |-> EmptyDict]

\* update_interaction_history from the copy of the state on: the entry is
\* appended to the copy
Appended(updated_state, interaction_entry) ==
    [updated_state EXCEPT !.interaction_history = Append(@, interaction_entry)]

InteractionFrame == UNCHANGED notInteractionVars

\* a request for the session arrives in a thread of its own; the timestamp of
\* its entries is the order of arrival
ProcessInteractionEnters ==
    /\ interactions.started < MaxTurns
    /\ interactions' = [turns |-> Append(interactions.turns, Entered(interactions.started + 1)),
                        started |-> interactions.started + 1]
    /\ op' = "process_candidate_interaction_entered"
    /\ ret' = [turn |-> interactions.started + 1]
    /\ UNCHANGED candidate_state
    /\ InteractionFrame

\* current_session = await session_service.get_session(...);
\* updated_state = current_session.state.copy()
GetSession ==
    /\ \E i \in 1..Len(interactions.turns) :
          LET t == interactions.turns[i]
          IN /\ t.pc \in {"get_for_query", "get_for_response"}
             /\ interactions' =
                   [interactions EXCEPT !.turns[i] =
                       [t EXCEPT !.updated_state = candidate_state,
                                 !.pc = IF t.pc = "get_for_query"
                                        THEN "create_for_query" ELSE "create_for_response"]]
             /\ ret' = [turn |-> t.turn]
    /\ op' = "get_session"
    /\ UNCHANGED candidate_state
    /\ InteractionFrame

\* the entry is appended to the copy and create_session stores the copy as
\* the state of the session
CreateSession ==
    /\ \E i \in 1..Len(interactions.turns) :
          LET t == interactions.turns[i]
          IN \/ /\ t.pc = "create_for_query"
                /\ candidate_state' =
                      Appended(t.updated_state, [action |-> "user_query", turn |-> t.turn])
                /\ interactions' = [interactions EXCEPT !.turns[i] = [t EXCEPT !.pc = "run"]]
                /\ op' = "add_user_query_to_history"
                /\ ret' = [turn |-> t.turn]
             \/ /\ t.pc = "create_for_response"
                /\ candidate_state' =
                      Appended(t.updated_state, [action |-> "agent_response", turn |-> t.turn])
                /\ interactions' = [interactions EXCEPT !.turns = Remove(@, i)]
                /\ op' = "process_candidate_interaction"
                /\ ret' = [turn |-> t.turn, text |-> "response_text"]
    /\ InteractionFrame

\* the agent's run ends with its response
RunAsyncReturns ==
    /\ \E i \in 1..Len(interactions.turns) :
          LET t == interactions.turns[i]
          IN /\ t.pc = "run"
             /\ interactions' =
                   [interactions EXCEPT !.turns[i] = [t EXCEPT !.pc = "get_for_response"]]
             /\ ret' = [turn |-> t.turn]
    /\ op' = "run_async"
    /\ UNCHANGED candidate_state
    /\ InteractionFrame

\* the agent's run raises: the turn returns "Error processing request"
RunAsyncRaises ==
    /\ \E i \in 1..Len(interactions.turns) :
          LET t == interactions.turns[i]
          IN /\ t.pc = "run"
             /\ interactions' = [interactions EXCEPT !.turns = Remove(@, i)]
             /\ ret' = [turn |-> t.turn, text |-> "Error processing request"]
    /\ op' = "process_candidate_interaction"
    /\ UNCHANGED candidate_state
    /\ InteractionFrame

InteractionInit ==
    /\ op = "none"
    /\ ret = [text |-> "none"]
    /\ \E role \in {"", "Tailor"} :
          candidate_state = create_initial_candidate_state(role)
    /\ interactions = [turns |-> <<>>, started |-> 0]
    /\ KnownUserIdle
    /\ competency_map = EmptyDict
    /\ a2a_contexts = EmptyDict
    /\ candidate_sessions = <<>>
    /\ a2a_requests = <<>>
    /\ backoff = NotCalled
    /\ learning = EmptyDict
    /\ database = EmptyDict
    /\ status_calls = 0
    /\ QuizIdle
    /\ RoundsIdle
    /\ TurnIdle
    /\ WhatsAppIdle

InteractionNext ==
    \/ ProcessInteractionEnters
    \/ GetSession
    \/ CreateSession
    \/ RunAsyncReturns
    \/ RunAsyncRaises

SpecInteraction == InteractionInit /\ [][InteractionNext]_vars

(***************************************************************************)
(* Claims about the interaction history (checked under SpecInteraction)    *)
(***************************************************************************)
\* the positions of the entries of the turn with the action
EntriesOf(history, action, turn) ==
    {k \in 1..Len(history) : history[k] = [action |-> action, turn |-> turn]}

\* C36: every turn of process_candidate_interaction appends one user_query
\* entry to interaction_history before the agent is run and one
\* agent_response entry after it, in that order; entries already in the
\* history are never removed, reordered or changed; a turn whose agent run
\* raises appends no agent_response entry.
C36_HistoryAppendOnly ==
    [][/\ IsPrefix(candidate_state.interaction_history, candidate_state'.interaction_history)
       /\ op' = "process_candidate_interaction" =>
             LET history == candidate_state'.interaction_history
                 queries == EntriesOf(history, "user_query", ret'.turn)
                 responses == EntriesOf(history, "agent_response", ret'.turn)
             IN /\ Cardinality(queries) = 1
                /\ IF ret'.text = "Error processing request"
                   THEN responses = {}
                   ELSE /\ Cardinality(responses) = 1
                        /\ \A q \in queries, r \in responses : q < r]_vars

(***************************************************************************)
(* A WhatsApp user with a saved role comes back                            *)
(***************************************************************************)
\* the role save_user_role stored during the turn, "None" when the turn did
\* not reach the role branch (the only one that calls it and that sends the
\* activity menu)
SavedRole(out, phone_number) ==
    IF \E k \in 1..Len(out.sent) : out.sent[k] = "activity_menu"
    THEN Get(StateOf(out.SESSIONS[phone_number]), "selected_role", "None")
    ELSE "None"

\* a scheduled coroutine of the user runs until it returns or waits for the
\* model; get_user_role answers from the row of the user
StartTaskOfKnownUser ==
    /\ \E i \in 1..Len(tasks), env \in Environments :
          /\ tasks[i].pc = "scheduled"
          /\ env.saved_role = (known_user.role # "None")
          /\ LET out == process_agent_and_reply(SESSIONS, INTERVIEW_PREP_AVAILABLE,
                                                tasks[i].phone_number,
                                                tasks[i].incoming_text, env)
                 saved == SavedRole(out, tasks[i].phone_number)
             IN /\ SESSIONS' = out.SESSIONS
                /\ ret' = [sent |-> out.sent]
                /\ known_user' =
                      [role |-> IF saved # "None" THEN saved ELSE known_user.role,
                       asked |-> IF out.sent = <<>> THEN known_user.asked
                                 ELSE out.sent[Len(out.sent)]]
                /\ tasks' = IF out.run_async
                            THEN [tasks EXCEPT ![i] =
                                    [@ EXCEPT !.pc = "run_async",
                                              !.incoming_text = HandedOver,
                                              !.runner = out.runner,
                                              !.agent_type = out.agent_type,
                                              !.before =
                                                 [electrician |-> electrician_sessions,
                                                  fitter |-> fitter_sessions]]]
                            ELSE Remove(tasks, i)
    /\ op' = "process_agent_and_reply"
    /\ UNCHANGED <<received, tool_calls, caller, electrician_sessions, fitter_sessions>>
    /\ UNCHANGED <<INTERVIEW_PREP_AVAILABLE, PRE_ANALYZED_ANSWERS, senders>>
    /\ UNCHANGED <<quizVars, turnVars, chosen_agent, verdictVars, a2aVars, backoff,
                   progressVars, interactions, chat>>

\* the user typed 'menu' and is at the service menu, the database holding the
\* role of an earlier conversation if there was one; or the user chose a role
\* and the skills assessment and is asked which assessment to take
KnownUserInit ==
    /\ op = "none"
    /\ ret = [text |-> "none"]
    /\ INTERVIEW_PREP_AVAILABLE \in BOOLEAN
    /\ senders = Froms
    /\ caller = "none"
    /\ \/ /\ SESSIONS = Put(EmptyDict, "+911",
                            SessionEntry("menu", "Electrician", INTERVIEW_PREP_AVAILABLE))
          /\ \E role \in {"None", "Electrician", "Fitter"} :
                known_user = [role |-> role, asked |-> "selection_menu"]
       \/ \E session \in SelectionSessions(INTERVIEW_PREP_AVAILABLE) :
             /\ Get(StateOf(session), "waiting_for_assessment_type", FALSE)
             /\ SESSIONS = Put(EmptyDict, "+911", session)
             /\ known_user = [role |-> SelectedRole(session),
                              asked |-> "assessment_type_menu"]
    /\ tasks = <<>>
    /\ received = 0
    /\ tool_calls = 0
    /\ PRE_ANALYZED_ANSWERS \in OnePhotoAnalyzed
    /\ electrician_sessions = EmptyDict
    /\ fitter_sessions = EmptyDict
    /\ chosen_agent = "electrician_skill_assessor"
    /\ QuizIdle
    /\ TurnIdle
    /\ candidate_state = EmptyDict
    /\ competency_map = EmptyDict
    /\ a2a_contexts = EmptyDict
    /\ candidate_sessions = <<>>
    /\ a2a_requests = <<>>
    /\ backoff = NotCalled
    /\ learning = EmptyDict
    /\ database = EmptyDict
    /\ status_calls = 0
    /\ interactions = [turns |-> <<>>, started |-> 0]
    /\ ChatIdle

KnownUserNext ==
    \/ TwilioWebhook
    \/ StartTaskOfKnownUser
    \/ RunnerCallsElectricianTool
    \/ RunnerCallsFitterTool
    \/ RunnerFinalResponse

SpecKnownUser == KnownUserInit /\ [][KnownUserNext]_vars

(***************************************************************************)
(* Claims about the saved role (checked under SpecKnownUser)               *)
(***************************************************************************)
\* C37: when a user with a saved role has come back through the menu, chosen
\* Interview Preparation and been asked what they would like to do
\* (1 practice, 2 skills assessment), the next reply '1' or '2' is taken as
\* the activity: it does not overwrite the saved role.
C37_ActivityReplyKeepsSavedRole ==
    [][(/\ op' = "process_agent_and_reply"
        /\ Cardinality(NotStarted(tasks')) < Cardinality(NotStarted(tasks))
        /\ known_user.role # "None"
        /\ known_user.asked = "interview_welcome_activity_menu"
        /\ \A i \in 1..Len(tasks) :
              tasks[i].pc = "scheduled" => tasks[i].incoming_text \in {"1", "2"})
          => known_user'.role = known_user.role]_vars

(***************************************************************************)
(* The label-reading quiz when the agent keeps scoring                     *)
(***************************************************************************)
\* the agent calls update_quiz_score_and_continue again whenever a call of
\* it is possible
SpecQuizFair ==
    /\ QuizInit
    /\ [][QuizNext]_vars
    /\ WF_vars(\E is_correct \in BOOLEAN : update_quiz_score_and_continue(is_correct))

(***************************************************************************)
(* Claims about the end of a quiz (checked under SpecQuizFair)             *)
(***************************************************************************)
\* C38: every label-reading quiz that was started becomes inactive after
\* finitely many update_quiz_score_and_continue calls, whatever question set
\* start produced, an empty one included.
C38_StartedQuizEnds == StoredQuizActive ~> ~StoredQuizActive

\* the same for the quizzes that have a question
QuizWithQuestionsEnds ==
    (StoredQuizActive /\ Quiz.questions # <<>>) ~> ~StoredQuizActive

(***************************************************************************)
(* The /chat endpoint and the webhook on one event loop                    *)
(***************************************************************************)
MaxChatRequests == 3    \* most /chat and webhook requests explored

notChatVars == <<quizVars, roundVars, turnVars, waVars, verdictVars, a2aVars, backoff,
                 progressVars, interactions, known_user>>

ChatMessages == {"", "Hi"}

\* twilio_client.send_whatsapp(phone_number, ...) of the turn of request i, with
\* the global looked up when the line runs: the real client sends to WhatsApp,
\* a MockTwilioClient appends to the responses list of the request that made it
SendThroughGlobal(c, i) ==
    IF c.twilio_client = RealClient
    THEN [c EXCEPT !.real_sent = @ \cup {i}]
    ELSE [c EXCEPT !.requests[c.twilio_client].responses = Append(@, i)]

ChatRequest(message, original_client) ==
    [endpoint |-> "chat", message |-> message, pc |-> "run_async",
     original_client |-> original_client, responses |-> <<>>,
     status |-> "none", agent_responses |-> <<>>]

BackgroundTask ==
    [endpoint |-> "webhook", message |-> "Hi", pc |-> "run_async",
     original_client |-> RealClient, responses |-> <<>>,
     status |-> "none", agent_responses |-> <<>>]

\* the return and the finally block of chat_endpoint
ChatReturns(c, i) ==
    [c EXCEPT !.requests[i].pc = "done",
              !.requests[i].status = "success",
              !.requests[i].agent_responses = c.requests[i].responses,
              !.twilio_client = c.requests[i].original_client]

\* POST /chat up to the first point where process_agent_and_reply waits: a
\* menu turn replies and returns without waiting, an agent turn waits for the
\* model
ChatEndpointEnters ==
    /\ Len(chat.requests) < MaxChatRequests
    /\ \E message \in ChatMessages, waits \in BOOLEAN :
          LET i == Len(chat.requests) + 1
              original_client == chat.twilio_client
              replaced == [chat EXCEPT
                              !.requests = Append(@, ChatRequest(message, original_client)),
                              !.twilio_client = i]
          IN IF message = ""
             THEN /\ chat' = [chat EXCEPT !.requests =
                                 Append(@, [ChatRequest(message, original_client)
                                               EXCEPT !.pc = "done", !.status = "error"])]
                  /\ ret' = [status |-> "error"]
             ELSE IF waits
             THEN /\ chat' = replaced
                  /\ ret' = [status |-> "none"]
             ELSE /\ chat' = ChatReturns(SendThroughGlobal(replaced, i), i)
                  /\ ret' = [status |-> "success"]
    /\ op' = "chat_endpoint"
    /\ UNCHANGED notChatVars

\* the model answered: the turn sends the reply and chat_endpoint returns
ChatEndpointResumes ==
    /\ \E i \in 1..Len(chat.requests) :
          /\ chat.requests[i].endpoint = "chat"
          /\ chat.requests[i].pc = "run_async"
          /\ chat' = ChatReturns(SendThroughGlobal(chat, i), i)
    /\ op' = "chat_endpoint"
    /\ ret' = [status |-> "success"]
    /\ UNCHANGED notChatVars

\* the background task of a webhook message, up to its first wait
BackgroundTaskStarts ==
    /\ Len(chat.requests) < MaxChatRequests
    /\ \E waits \in BOOLEAN :
          LET i == Len(chat.requests) + 1
              added == [chat EXCEPT !.requests = Append(@, BackgroundTask)]
          IN IF waits
             THEN chat' = added
             ELSE chat' = [SendThroughGlobal(added, i) EXCEPT !.requests[i].pc = "done"]
    /\ op' = "process_agent_and_reply"
    /\ ret' = [status |-> "none"]
    /\ UNCHANGED notChatVars

BackgroundTaskResumes ==
    /\ \E i \in 1..Len(chat.requests) :
          /\ chat.requests[i].endpoint = "webhook"
          /\ chat.requests[i].pc = "run_async"
          /\ chat' = [SendThroughGlobal(chat, i) EXCEPT !.requests[i].pc = "done"]
    /\ op' = "process_agent_and_reply"
    /\ ret' = [status |-> "none"]
    /\ UNCHANGED notChatVars

ChatInit ==
    /\ op = "none"
    /\ ret = [text |-> "none"]
    /\ ChatIdle
    /\ known_user = [role |-> "None", asked |-> "none"]
    /\ interactions = [turns |-> <<>>, started |-> 0]
    /\ learning = EmptyDict
    /\ database = EmptyDict
    /\ status_calls = 0
    /\ backoff = NotCalled
    /\ a2a_contexts = EmptyDict
    /\ candidate_sessions = <<>>
    /\ a2a_requests = <<>>
    /\ candidate_state = EmptyDict
    /\ competency_map = EmptyDict
    /\ QuizIdle
    /\ RoundsIdle
    /\ TurnIdle
    /\ WhatsAppIdle

ChatNext ==
    \/ ChatEndpointEnters
    \/ ChatEndpointResumes
    \/ BackgroundTaskStarts
    \/ BackgroundTaskResumes

SpecChat == ChatInit /\ [][ChatNext]_vars

(***************************************************************************)
(* Claims about the replaced Twilio client (checked under SpecChat)        *)
(***************************************************************************)
\* C39: the replacement of the global Twilio client by /chat is isolated: the
\* reply to a webhook message goes through the real client, a /chat response
\* holds only replies to its own message, and once no /chat request is in
\* flight the global client is the real one.
C39_ChatClientIsolated ==
    /\ \A i \in 1..Len(chat.requests) :
          (chat.requests[i].endpoint = "webhook" /\ chat.requests[i].pc = "done")
             => i \in chat.real_sent
    /\ \A i \in 1..Len(chat.requests) :
          chat.requests[i].status = "success"
             => \A k \in 1..Len(chat.requests[i].agent_responses) :
                   chat.requests[i].agent_responses[k] = i
    /\ (\A i \in 1..Len(chat.requests) :
           chat.requests[i].endpoint = "chat" => chat.requests[i].pc = "done")
          => chat.twilio_client = RealClient

(***************************************************************************)
(* Claims about the skill lists (checked under SpecCandidate)              *)
(***************************************************************************)
NoDuplicates(seq) == \A j, k \in 1..Len(seq) : seq[j] = seq[k] => j = k

\* C40: after any sequence of start_skill_assessment and
\* complete_skill_assessment calls, completed_skills and pending_skills each
\* hold no skill twice and no skill is in both.
C40_SkillListsDisjoint ==
    /\ NoDuplicates(candidate_state.completed_skills)
    /\ NoDuplicates(candidate_state.pending_skills)
    /\ \A k \in 1..Len(candidate_state.completed_skills) :
          ~InSeq(candidate_state.completed_skills[k], candidate_state.pending_skills)

====
